---- MODULE Spec2Model ----
(***************************************************************************)
(* Receipt-text extraction engine of hinosatosofttennis/bookkeepingrender. *)
(*                                                                         *)
(* The repository holds several iterations of parseReceiptText.  Each one  *)
(* is modelled as its own operator and its own action, named after the     *)
(* file and the line where its definition starts:                          *)
(*   srv153  src/server.js:153          five date formats, no fallback     *)
(*   srv542  src/server.js:542          dateRegexes scan (fragment)        *)
(*   srv672  src/server.js:672          four date formats, today fallback  *)
(*   p3v153  src/unnamed/part_003:153   validating bestMatch scan          *)
(*   p3v722  src/unnamed/part_003:722   refactored single pass             *)
(*   p4v283  src/unnamed/part_004:283   refactored, no bare month/day rule *)
(*   p1v185  src/unnamed/part_001:185   first revision, first amount found *)
(*   p2v89   src/unnamed/part_002:89    parseReceipt, whole-text patterns  *)
(*                                                                         *)
(* Text is a sequence of one-character strings.  Characters outside ASCII  *)
(* are written with ASCII names:                                           *)
(*   "nen" U+5E74  "gatsu" U+6708  "nichi" U+65E5   (year/month/day words) *)
(*   "yen" U+00A5  "fwyen" U+FFE5  "en" U+5186      (currency)             *)
(*   "gou" "kei" U+5408 U+8A08 (total)  "shou" U+5C0F (sub-, with "kei")   *)
(*   "ten" U+5E97 (shop)  "ryou" "shuu" "sho" U+9818 U+53CE U+66F8         *)
(*   "kana" any other non-ASCII letter, "LF" line feed, "bsl" backslash    *)
(***************************************************************************)
EXTENDS Integers, Sequences, FiniteSets, TLC

VARIABLES text, now, pc, version, result, first, normalized,
          build, server, visionClient, selfTest, exit, reqs,
          transactions, user_account_usage, rowLock, txs,
          JWT_SECRET, calls, users, logins

\* the state of a call of the parser
parserVars == <<text, now, pc, version, result, first, normalized>>

\* the state of the OCR server process
serverVars == <<build, server, visionClient, selfTest, exit, reqs>>

\* the tables of the ledger, the lock on the rows of user_account_usage, and
\* the requests to POST /api/transactions
ledgerVars == <<transactions, user_account_usage, rowLock, txs>>

\* the secret of the tokens and the requests to the protected routes
authVars == <<JWT_SECRET, calls>>

\* the table users and the requests to POST /api/login
loginVars == <<users, logins>>

\* the state of the services around the parser
serviceVars == <<serverVars, ledgerVars, authVars, loginVars>>

\* what the actions of each service leave alone
besideServer == <<parserVars, ledgerVars, authVars, loginVars>>

besideLedger == <<parserVars, serverVars, authVars, loginVars>>

besideAuth == <<parserVars, serverVars, ledgerVars, loginVars>>

besideLogin == <<parserVars, serverVars, ledgerVars, authVars>>

vars == <<parserVars, serviceVars>>

(***************************************************************************)
(* Characters and the character classes the regular expressions use.       *)
(***************************************************************************)
Digits == <<"0", "1", "2", "3", "4", "5", "6", "7", "8", "9">>

DigitSet == {Digits[k] : k \in 1..10}

\* \d
IsDigit(c) == c \in DigitSet

\* \w without the u flag: ASCII letters, digits and underscore
IsWord(c) == IsDigit(c) \/ c \in {"a", "T", "O", "A", "L", "C", "R", "_"}

\* [/.-]
IsDateSep(c) == c \in {"/", ".", "-"}

\* \s, and the characters String.prototype.trim removes
IsSpace(c) == c \in {" ", "LF", "CR"}

\* the character at 1-based position i, "" outside the string
At(s, i) == IF i \in 1..Len(s) THEN s[i] ELSE ""

\* the n characters starting at position p
Sub(s, p, n) == SubSeq(s, p, p + n - 1)

\* \d{n} at position p
Digs(s, p, n) == \A k \in 0..(n - 1) : IsDigit(At(s, p + k))

\* \b between positions p-1 and p
WordBoundary(s, p) == IsWord(At(s, p - 1)) # IsWord(At(s, p))

Max(S) == CHOOSE x \in S : \A y \in S : y <= x

Min(S) == CHOOSE x \in S : \A y \in S : x <= y

(***************************************************************************)
(* JavaScript values and conversions.                                      *)
(***************************************************************************)
\* null or undefined where a string is expected: a one-element sequence
\* holding a value that is no character
NULL == <<"null">>

\* the numbers of the program are non-negative integers; NaN and a null
\* number are the two values below zero
NaN == -1

NullNum == -2

DigitVal(c) == CHOOSE k \in 0..9 : Digits[k + 1] = c

RECURSIVE DigitsValue(_)
DigitsValue(s) ==
    IF Len(s) = 0 THEN 0
    ELSE 10 * DigitsValue(SubSeq(s, 1, Len(s) - 1)) + DigitVal(s[Len(s)])

\* number of leading digits of s
RECURSIVE LeadingDigits(_)
LeadingDigits(s) ==
    IF Len(s) > 0 /\ IsDigit(s[1]) THEN 1 + LeadingDigits(Tail(s)) ELSE 0

\* parseInt(s, 10) on a string without sign or leading blanks
parseInt(s) ==
    IF LeadingDigits(s) = 0 THEN NaN
    ELSE DigitsValue(SubSeq(s, 1, LeadingDigits(s)))

\* String(n) for a non-negative integer
RECURSIVE NumToStr(_)
NumToStr(n) ==
    IF n < 10 THEN <<Digits[n + 1]>>
    ELSE NumToStr(n \div 10) \o <<Digits[(n % 10) + 1]>>

\* s.padStart(2, '0')
padStart2(s) ==
    IF Len(s) = 0 THEN <<"0", "0">>
    ELSE IF Len(s) = 1 THEN <<"0">> \o s
    ELSE s

\* `${y}-${m.padStart(2,'0')}-${d.padStart(2,'0')}` on strings
FormatYMD(y, m, d) == y \o <<"-">> \o padStart2(m) \o <<"-">> \o padStart2(d)

(***************************************************************************)
(* The clock.  now is [y, m, d, tod]; tod = 0 is local midnight exactly,   *)
(* tod = 1 any later time of that day.                                     *)
(***************************************************************************)
\* new Date().getFullYear()
getFullYear(t) == t.y

\* new Date().toISOString().slice(0, 10)
todayISO(t) == FormatYMD(NumToStr(t.y), NumToStr(t.m), NumToStr(t.d))

(***************************************************************************)
(* Line normalizer: text.split('\n').map(trim).filter(length > 0)          *)
(***************************************************************************)
RECURSIVE split(_)
split(s) ==
    LET I == {i \in 1..Len(s) : s[i] = "LF"} IN
    IF I = {} THEN <<s>>
    ELSE <<SubSeq(s, 1, Min(I) - 1)>> \o split(SubSeq(s, Min(I) + 1, Len(s)))

\* a trim that removes leading whitespace only
RECURSIVE trim_leadingOnly(_)
trim_leadingOnly(s) ==
    IF Len(s) > 0 /\ IsSpace(s[1]) THEN trim_leadingOnly(Tail(s)) ELSE s

RECURSIVE trim(_)
trim(s) ==
    IF Len(s) > 0 /\ IsSpace(s[1]) THEN trim(Tail(s))
    ELSE IF Len(s) > 0 /\ IsSpace(s[Len(s)]) THEN trim(SubSeq(s, 1, Len(s) - 1))
    ELSE s

normalizeLines(s) ==
    LET segs == split(s) IN
    SelectSeq([k \in 1..Len(segs) |-> trim(segs[k])], LAMBDA l : Len(l) > 0)

(***************************************************************************)
(* Regular-expression matching, as String.prototype.match does it for a    *)
(* pattern without the g flag: the leftmost start position wins, and at    *)
(* that position the quantifiers are greedy with backtracking, so the      *)
(* lexicographically longest tuple of group lengths that lets the whole    *)
(* pattern succeed is the one taken.                                       *)
(* A match is [ok, at, g, gpos]: g the captured groups, gpos their start   *)
(* positions, at the position of the first captured character.             *)
(***************************************************************************)
NoMatch == [ok |-> FALSE, at |-> 0, g |-> <<>>, gpos |-> <<>>]

LexMax3(C) ==
    CHOOSE t \in C : \A u \in C :
        \/ t[1] > u[1]
        \/ t[1] = u[1] /\ t[2] > u[2]
        \/ t[1] = u[1] /\ t[2] = u[2] /\ t[3] >= u[3]

LexMax2(C) ==
    CHOOSE t \in C : \A u \in C :
        \/ t[1] > u[1]
        \/ t[1] = u[1] /\ t[2] >= u[2]

\* the group lengths with which (\d{L1})[/.-](\d{L2})[/.-](\d{L3}) followed
\* by the condition Post matches at position i
Cands3(s, i, L1, L2, L3, Post(_, _)) ==
    {t \in L1 \X L2 \X L3 :
        /\ Digs(s, i, t[1])
        /\ IsDateSep(At(s, i + t[1]))
        /\ Digs(s, i + t[1] + 1, t[2])
        /\ IsDateSep(At(s, i + t[1] + 1 + t[2]))
        /\ Digs(s, i + t[1] + t[2] + 2, t[3])
        /\ Post(s, i + t[1] + t[2] + 2 + t[3])}

\* the match at position i with group lengths t
Groups3(s, i, t) ==
    [ok |-> TRUE, at |-> i,
     g |-> <<Sub(s, i, t[1]), Sub(s, i + t[1] + 1, t[2]),
             Sub(s, i + t[1] + t[2] + 2, t[3])>>,
     gpos |-> <<i, i + t[1] + 1, i + t[1] + t[2] + 2>>]

\* the match at the least of the start positions I
First3(s, I, L1, L2, L3, Post(_, _)) ==
    IF I = {} THEN NoMatch
    ELSE Groups3(s, Min(I), LexMax3(Cands3(s, Min(I), L1, L2, L3, Post)))

\* (\d{L1})[/.-](\d{L2})[/.-](\d{L3}) with a condition Pre before the first
\* group and a condition Post after the last one
Match3(s, L1, L2, L3, Pre(_, _), Post(_, _)) ==
    First3(s, {i \in 1..Len(s) : Pre(s, i) /\ Cands3(s, i, L1, L2, L3, Post) # {}},
           L1, L2, L3, Post)

\* the group lengths with which (\d{L1})[/.-](\d{L2}) followed by the
\* condition Post matches at position i
Cands2(s, i, L1, L2, Post(_, _)) ==
    {t \in L1 \X L2 :
        /\ Digs(s, i, t[1])
        /\ IsDateSep(At(s, i + t[1]))
        /\ Digs(s, i + t[1] + 1, t[2])
        /\ Post(s, i + t[1] + 1 + t[2])}

Groups2(s, i, t) ==
    [ok |-> TRUE, at |-> i,
     g |-> <<Sub(s, i, t[1]), Sub(s, i + t[1] + 1, t[2])>>,
     gpos |-> <<i, i + t[1] + 1>>]

First2(s, I, L1, L2, Post(_, _)) ==
    IF I = {} THEN NoMatch
    ELSE Groups2(s, Min(I), LexMax2(Cands2(s, Min(I), L1, L2, Post)))

\* (\d{L1})[/.-](\d{L2}) with conditions Pre and Post
Match2(s, L1, L2, Pre(_, _), Post(_, _)) ==
    First2(s, {i \in 1..Len(s) : Pre(s, i) /\ Cands2(s, i, L1, L2, Post) # {}},
           L1, L2, Post)

\* no condition
Anywhere(s, p) == TRUE

\* (?:^|[^\d]) before position p
NotAfterDigit(s, p) == ~IsDigit(At(s, p - 1))

\* (?:[^\d]|$) at position p
NotBeforeDigit(s, p) == ~IsDigit(At(s, p))

\* (?:[^\d:]|$) at position p
NotBeforeDigitOrColon(s, p) == ~IsDigit(At(s, p)) /\ At(s, p) # ":"

(***************************************************************************)
(* The date rule with unit words.                                          *)
(***************************************************************************)
\* the position after \s* starting at p
RECURSIVE SkipSpaces(_, _)
SkipSpaces(s, p) == IF IsSpace(At(s, p)) THEN SkipSpaces(s, p + 1) ELSE p

\* the position after \s* starting at p when spaces is TRUE, p otherwise
Skip(s, p, spaces) == IF spaces THEN SkipSpaces(s, p) ELSE p

\* the lengths a with (\d{a})gatsu at position p2
MonthLens(s, p2) == {a \in 1..2 : Digs(s, p2, a) /\ At(s, p2 + a) = "gatsu"}

\* the lengths b with (\d{b})nichi at position p3
DayLens(s, p3) == {b \in 1..2 : Digs(s, p3, b) /\ At(s, p3 + b) = "nichi"}

\* the month lengths at p2 after which a day follows
MonthLensWithDay(s, p2, spaces) ==
    {a \in MonthLens(s, p2) : DayLens(s, Skip(s, p2 + a + 1, spaces)) # {}}

\* the match with the year at i, the month of length a at p2, the day at p3
GroupsJP(s, i, p2, a, p3) ==
    [ok |-> TRUE, at |-> i,
     g |-> <<Sub(s, i, 4), Sub(s, p2, a), Sub(s, p3, Max(DayLens(s, p3)))>>,
     gpos |-> <<i, p2, p3>>]

\* the match with the year at i and the month at p2, the month greedy
PickJP(s, i, p2, a, spaces) == GroupsJP(s, i, p2, a, Skip(s, p2 + a + 1, spaces))

FirstJP(s, I, spaces) ==
    IF I = {} THEN NoMatch
    ELSE PickJP(s, Min(I), Skip(s, Min(I) + 5, spaces),
                Max(MonthLensWithDay(s, Skip(s, Min(I) + 5, spaces), spaces)), spaces)

\* /(\d{4})nen\s*(\d{1,2})gatsu\s*(\d{1,2})nichi/ when spaces is TRUE,
\* /(\d{4})[nen](\d{1,2})[gatsu](\d{1,2})[nichi]/ when it is FALSE
MatchJP(s, spaces) ==
    FirstJP(s, {i \in 1..Len(s) :
                  /\ Digs(s, i, 4)
                  /\ At(s, i + 4) = "nen"
                  /\ MonthLensWithDay(s, Skip(s, i + 5, spaces), spaces) # {}},
            spaces)

(***************************************************************************)
(* The date rules of src/server.js (and their copies in part_003/004).     *)
(***************************************************************************)
\* /(\d{4})[/.-](\d{1,2})[/.-](\d{1,2})/
re_YYYYMMDD(s) == Match3(s, {4}, {1, 2}, {1, 2}, Anywhere, Anywhere)

\* /(\d{1,2})[/.-](\d{1,2})[/.-](\d{4})/
re_MMDDYYYY(s) == Match3(s, {1, 2}, {1, 2}, {4}, Anywhere, Anywhere)

\* /\b(\d{2})[/.-](\d{1,2})[/.-](\d{1,2})\b/
re_YYMMDD(s) == Match3(s, {2}, {1, 2}, {1, 2}, WordBoundary, WordBoundary)

\* /(\d{1,2})[/.-](\d{1,2})[/.-](\d{2})\b/
re_MMDDYY(s) == Match3(s, {1, 2}, {1, 2}, {2}, Anywhere, WordBoundary)

\* /\b(\d{1,2})[/.-](\d{1,2})\b/
re_MMDD(s) == Match2(s, {1, 2}, {1, 2}, WordBoundary, WordBoundary)

\* the pivot moved by one: year >= 50 ? 1900 + year : 2000 + year
fullYear_pivotAt50(year) == IF year >= 50 THEN 1900 + year ELSE 2000 + year

\* year > 50 ? 1900 + year : 2000 + year
fullYear(year) == IF year > 50 THEN 1900 + year ELSE 2000 + year

\* the regex of the date format named group
formatRegex(group, s) ==
    CASE group = "YYYY/MM/DD" -> re_YYYYMMDD(s)
      [] group = "MM/DD/YYYY" -> re_MMDDYYYY(s)
      [] group = "YY/MM/DD" -> re_YYMMDD(s)
      [] group = "MM/DD/YY" -> re_MMDDYY(s)
      [] group = "MM/DD" -> re_MMDD(s)
      [] group = "YYYYnenMMgatsuDDnichi" -> MatchJP(s, TRUE)

\* the formatter of the date format named group, applied to match m at time t
formatter(group, m, t) ==
    CASE group \in {"YYYY/MM/DD", "YYYYnenMMgatsuDDnichi"} ->
            FormatYMD(m.g[1], m.g[2], m.g[3])
      [] group = "MM/DD/YYYY" -> FormatYMD(m.g[3], m.g[1], m.g[2])
      [] group = "YY/MM/DD" ->
            FormatYMD(NumToStr(fullYear(parseInt(m.g[1]))), m.g[2], m.g[3])
      [] group = "MM/DD/YY" ->
            FormatYMD(NumToStr(fullYear(parseInt(m.g[3]))), m.g[1], m.g[2])
      [] group = "MM/DD" ->
            FormatYMD(NumToStr(getFullYear(t)), m.g[1], m.g[2])

\* the table with the year-less rule listed first
dateFormats_mdFirst ==
    <<"MM/DD", "YYYY/MM/DD", "MM/DD/YYYY", "YY/MM/DD", "MM/DD/YY">>

dateFormats_srv153 ==
    <<"YYYY/MM/DD", "MM/DD/YYYY", "YY/MM/DD", "MM/DD/YY", "MM/DD">>

\* for (const format of dateFormats) { match = line.match(format.regex);
\*   if (match) { result.date = format.formatter(match); break; } }
\* from format k on; NULL when no format matches the line
RECURSIVE tryFormats(_, _, _, _)
tryFormats(formats, k, line, t) ==
    IF k > Len(formats) THEN NULL
    ELSE LET m == formatRegex(formats[k], line) IN
         IF m.ok THEN formatter(formats[k], m, t)
         ELSE tryFormats(formats, k + 1, line, t)

\* for (const line of lines) { ...; if (result.date) break; }
RECURSIVE scanDate(_, _, _, _)
scanDate(formats, lines, k, t) ==
    IF k > Len(lines) THEN NULL
    ELSE LET d == tryFormats(formats, 1, lines[k], t) IN
         IF d # NULL THEN d ELSE scanDate(formats, lines, k + 1, t)

(***************************************************************************)
(* src/server.js:542  the dateRegexes scan (the function is cut off after  *)
(* the date loop, so only the date it assigns is modelled).                *)
(***************************************************************************)
\* /(\d{1,2})[/.-](\d{1,2})[/.-](\d{1,2})/
re_MMDDYY_srv542(s) == Match3(s, {1, 2}, {1, 2}, {1, 2}, Anywhere, Anywhere)

\* /(\d{1,2})[/.-](\d{1,2})/
re_MMDD_srv542(s) == Match2(s, {1, 2}, {1, 2}, Anywhere, Anywhere)

dateRegexes_srv542(k, s) ==
    CASE k = 1 -> re_YYYYMMDD(s)
      [] k = 2 -> re_MMDDYYYY(s)
      [] k = 3 -> re_MMDDYY_srv542(s)
      [] k = 4 -> re_MMDD_srv542(s)

\* the if / else-if chain on the shape of the match
dateOfMatch_srv542(m, t) ==
    IF Len(m.g[1]) = 4 THEN FormatYMD(m.g[1], m.g[2], m.g[3])
    ELSE IF Len(m.g) = 3 /\ Len(m.g[3]) = 4 THEN FormatYMD(m.g[3], m.g[1], m.g[2])
    ELSE IF Len(m.g) = 3 /\ Len(m.g[3]) = 2
        THEN FormatYMD(NumToStr(fullYear(parseInt(m.g[3]))), m.g[1], m.g[2])
    ELSE IF Len(m.g) = 2 THEN FormatYMD(NumToStr(getFullYear(t)), m.g[1], m.g[2])
    ELSE NULL

\* for (const regex of dateRegexes) { if (match && !result.date) {...; break;} }
RECURSIVE tryRegexes_srv542(_, _, _, _)
tryRegexes_srv542(k, line, date, t) ==
    IF k > 4 THEN date
    ELSE LET m == dateRegexes_srv542(k, line) IN
         IF m.ok /\ date = NULL THEN dateOfMatch_srv542(m, t)
         ELSE tryRegexes_srv542(k + 1, line, date, t)

RECURSIVE scanDate_srv542(_, _, _, _)
scanDate_srv542(lines, k, date, t) ==
    IF k > Len(lines) THEN date
    ELSE scanDate_srv542(lines, k + 1, tryRegexes_srv542(1, lines[k], date, t), t)

(***************************************************************************)
(* src/unnamed/part_003:153  the validating date scan.                     *)
(***************************************************************************)
\* excludePatterns.some(pattern => pattern.test(line))
excluded_p3v153(s) ==
    \/ \E i \in 1..Len(s) : \E a \in 1..2 :            \* /\d{1,2}:\d{2}/
            Digs(s, i, a) /\ At(s, i + a) = ":" /\ Digs(s, i + a + 1, 2)
    \/ \E i \in 1..Len(s) : \E a \in 3..4 :            \* /\d{3,4}-\d{4}/
            Digs(s, i, a) /\ At(s, i + a) = "-" /\ Digs(s, i + a + 1, 4)
    \/ \E i \in 1..Len(s) :                             \* /yen\s*\d+/
            s[i] = "yen" /\ IsDigit(At(s, SkipSpaces(s, i + 1)))
    \/ \E i \in 1..Len(s) :                             \* /\$\s*\d+/
            s[i] = "$" /\ IsDigit(At(s, SkipSpaces(s, i + 1)))
    \/ /\ Len(s) >= 4                                   \* /\d+\.\d{2}$/
       /\ IsDigit(s[Len(s) - 3])
       /\ s[Len(s) - 2] = "."
       /\ Digs(s, Len(s) - 1, 2)

datePatterns_p3v153 == <<"jp", "ymd", "dmy", "mdy", "ymd2", "md">>

\* datePatterns[k].regex
patternRegex_p3v153(format, s) ==
    CASE format = "jp" -> MatchJP(s, FALSE)
      [] format = "ymd" -> Match3(s, {4}, {1, 2}, {1, 2}, NotAfterDigit, NotBeforeDigit)
      [] format = "dmy" -> Match3(s, {1, 2}, {1, 2}, {4}, NotAfterDigit, NotBeforeDigit)
      [] format = "mdy" -> Match3(s, {1, 2}, {1, 2}, {4}, NotAfterDigit, NotBeforeDigit)
      [] format = "ymd2" -> Match3(s, {2}, {1, 2}, {1, 2}, NotAfterDigit, NotBeforeDigit)
      [] format = "md" -> Match2(s, {1, 2}, {1, 2}, NotAfterDigit, NotBeforeDigitOrColon)

isLeapYear(y) == (y % 4 = 0 /\ y % 100 # 0) \/ (y % 400 = 0)

daysInMonth(y, m) ==
    IF m = 2 THEN (IF isLeapYear(y) THEN 29 ELSE 28)
    ELSE IF m \in {4, 6, 9, 11} THEN 30 ELSE 31

\* isValidDate on already parsed numbers
isValidDate(y, m, d) ==
    IF m < 1 \/ m > 12 \/ d < 1 \/ d > 31 THEN FALSE
    ELSE d <= daysInMonth(y, m)

\* expandYear(twoDigitYear)
expandYear(year, t) ==
    LET currentYear == getFullYear(t)
        currentCentury == (currentYear \div 100) * 100
        currentYearLastTwo == currentYear % 100
    IN  IF year <= currentYearLastTwo + 10 THEN currentCentury + year
        ELSE currentCentury - 100 + year

\* days from 0000-03-01 to the civil date y-m-d (proleptic Gregorian)
dayNumber(y, m, d) ==
    LET yy == IF m <= 2 THEN y - 1 ELSE y
        mm == IF m <= 2 THEN m + 9 ELSE m - 3
    IN  365 * yy + (yy \div 4) - (yy \div 100) + (yy \div 400)
          + ((153 * mm + 2) \div 5) + d - 1

\* the comparison with >= 30 days in place of > 30 days
rollsForward_from30Days(y, m, d, t) ==
    LET diff == dayNumber(t.y, t.m, t.d) - dayNumber(y, m, d) IN
    /\ (diff > 0 \/ (diff = 0 /\ t.tod > 0))
    /\ diff >= 30

\* testDate < today && (today - testDate) > 30 * 24 * 60 * 60 * 1000,
\* testDate the local midnight of y-m-d
rollsForward(y, m, d, t) ==
    LET diff == dayNumber(t.y, t.m, t.d) - dayNumber(y, m, d) IN
    /\ (diff > 0 \/ (diff = 0 /\ t.tod > 0))
    /\ (diff > 30 \/ (diff = 30 /\ t.tod > 0))

\* the outcome of a pattern: skip is the `continue` taken when the pattern's
\* validator rejects, valid the value of isValid
Evaluated(skip, y, mo, d, valid) ==
    [skip |-> skip, year |-> y, month |-> mo, day |-> d, valid |-> valid]

\* case 'md': the current year, or the next one when the date lies more than
\* 30 days back
evalMD_p3v153(y, mo, d, t) ==
    IF isValidDate(y, mo, d) /\ rollsForward(y, mo, d, t)
    THEN Evaluated(FALSE, y + 1, mo, d, TRUE)
    ELSE Evaluated(FALSE, y, mo, d, isValidDate(y, mo, d))

\* the switch (pattern.format) of the scan on the parsed groups g1, g2, g3
evalGroups_p3v153(format, g1, g2, g3, t) ==
    CASE format \in {"jp", "ymd"} ->
            Evaluated(FALSE, g1, g2, g3, isValidDate(g1, g2, g3))
      [] format = "dmy" ->
            \* validator: (d, m, y) => parseInt(d) > 12 || parseInt(m) <= 12
            IF ~(g1 > 12 \/ g2 <= 12) THEN Evaluated(TRUE, g3, g2, g1, FALSE)
            ELSE Evaluated(FALSE, g3, g2, g1, isValidDate(g3, g2, g1))
      [] format = "mdy" ->
            Evaluated(FALSE, g3, g1, g2, isValidDate(g3, g1, g2))
      [] format = "ymd2" ->
            \* validator: year > 31 || (0 <= year <= 99 && month <= 12 && day <= 31)
            IF ~(g1 > 31 \/ (g1 >= 0 /\ g1 <= 99 /\ g2 <= 12 /\ g3 <= 31))
            THEN Evaluated(TRUE, g1, g2, g3, FALSE)
            ELSE Evaluated(FALSE, expandYear(g1, t), g2, g3,
                           isValidDate(expandYear(g1, t), g2, g3))
      [] format = "md" -> evalMD_p3v153(getFullYear(t), g1, g2, t)

\* the date the match m of the pattern stands for
evalPattern_p3v153(format, m, t) ==
    evalGroups_p3v153(format, parseInt(m.g[1]), parseInt(m.g[2]),
                      IF Len(m.g) = 3 THEN parseInt(m.g[3]) ELSE 0, t)

noBestMatch ==
    [found |-> FALSE, year |-> 0, month |-> 0, day |-> 0, priority |-> 7,
     format |-> "", line |-> <<>>]

\* bestMatch = { year, month, day, priority, format, line }
newBestMatch(k, line, e) ==
    [found |-> TRUE, year |-> e.year, month |-> e.month, day |-> e.day,
     priority |-> k, format |-> datePatterns_p3v153[k], line |-> line]

\* for (const pattern of datePatterns) { if (match && priority < bestPriority) ... }
\* from pattern k on; a pattern's priority is its index
RECURSIVE patternLoop_p3v153(_, _, _, _)

\* if (isValid) { bestMatch = ...; if (pattern.priority === 1) break; }
acceptPattern_p3v153(k, line, best, t, e) ==
    IF ~e.skip /\ e.valid
    THEN IF k = 1 THEN newBestMatch(k, line, e)
         ELSE patternLoop_p3v153(k + 1, line, newBestMatch(k, line, e), t)
    ELSE patternLoop_p3v153(k + 1, line, best, t)

\* if (match && pattern.priority < bestPriority) on the match m of pattern k
matchPattern_p3v153(k, line, best, t, m) ==
    IF m.ok /\ k < best.priority
    THEN acceptPattern_p3v153(k, line, best, t,
                              evalPattern_p3v153(datePatterns_p3v153[k], m, t))
    ELSE patternLoop_p3v153(k + 1, line, best, t)

patternLoop_p3v153(k, line, best, t) ==
    IF k > Len(datePatterns_p3v153) THEN best
    ELSE matchPattern_p3v153(k, line, best, t,
                             patternRegex_p3v153(datePatterns_p3v153[k], line))

\* for (const line of lines) { if (excluded) continue; ...;
\*   if (bestMatch && bestMatch.priority === 1) break; }
RECURSIVE lineLoop_p3v153(_, _, _, _)

\* if (bestMatch && bestMatch.priority === 1) break;
afterLine_p3v153(lines, k, nb, t) ==
    IF nb.found /\ nb.priority = 1 THEN nb
    ELSE lineLoop_p3v153(lines, k + 1, nb, t)

lineLoop_p3v153(lines, k, best, t) ==
    IF k > Len(lines) THEN best
    ELSE IF excluded_p3v153(lines[k]) THEN lineLoop_p3v153(lines, k + 1, best, t)
    ELSE afterLine_p3v153(lines, k, patternLoop_p3v153(1, lines[k], best, t), t)

\* `${year}-${month.toString().padStart(2,'0')}-${day.toString().padStart(2,'0')}`
dateOfBestMatch(best) ==
    FormatYMD(NumToStr(best.year), NumToStr(best.month), NumToStr(best.day))

\* lines.join(' ')
RECURSIVE join(_)
join(lines) ==
    IF Len(lines) = 0 THEN <<>>
    ELSE IF Len(lines) = 1 THEN lines[1]
    ELSE lines[1] \o <<" ">> \o join(Tail(lines))

(***************************************************************************)
(* Amount extraction.                                                      *)
(***************************************************************************)
\* [yen bsl # fwyen]
IsCurrency(c) == c \in {"yen", "bsl", "#", "fwyen"}

\* [0-9,]
IsAmountChar(c) == IsDigit(c) \/ c = ","

\* length of the run of [0-9,] starting at p
RECURSIVE RunLen(_, _)
RunLen(s, p) == IF IsAmountChar(At(s, p)) THEN 1 + RunLen(s, p + 1) ELSE 0

\* the words of (?:gou kei|shou kei|go sei kyuu gaku)
totalWords ==
    {<<"gou", "kei">>, <<"shou", "kei">>, <<"go", "sei", "kyuu", "gaku">>}

\* word w stands at position i
StandsAt(s, i, w) == i + Len(w) - 1 <= Len(s) /\ Sub(s, i, Len(w)) = w

\* (?:gou kei|shou kei|go sei kyuu gaku)[\s]*[yen bsl # fwyen]?[\s]*([0-9,]{n,})
\* tried at position i: the captured group, or NULL
totalAt(s, i, n) ==
    IF \E w \in totalWords : StandsAt(s, i, w)
    THEN LET w == CHOOSE x \in totalWords : StandsAt(s, i, x)
             q == SkipSpaces(s, i + Len(w))
             r == SkipSpaces(s, IF IsCurrency(At(s, q)) THEN q + 1 ELSE q)
         IN  IF RunLen(s, r) >= n THEN Sub(s, r, RunLen(s, r)) ELSE NULL
    ELSE NULL

\* [yen bsl # fwyen][\s]*([0-9,]{3,}) tried at position i
symbolAt(s, i) ==
    IF IsCurrency(At(s, i))
    THEN LET r == SkipSpaces(s, i + 1) IN
         IF RunLen(s, r) >= 3 THEN Sub(s, r, RunLen(s, r)) ELSE NULL
    ELSE NULL

\* ([0-9,]{3,})[\s]*en tried at position i
unitAt(s, i) ==
    IF RunLen(s, i) >= 3 /\ At(s, SkipSpaces(s, i + RunLen(s, i))) = "en"
    THEN Sub(s, i, RunLen(s, i))
    ELSE NULL

\* the group of the leftmost match of a pattern given by its try-at operator
Leftmost(s, TryAt(_, _)) ==
    LET I == {i \in 1..Len(s) : TryAt(s, i) # NULL} IN
    IF I = {} THEN NULL ELSE TryAt(s, Min(I))

total1At(s, i) == totalAt(s, i, 1)

total2At(s, i) == totalAt(s, i, 2)

\* amountRegexes[k] of src/server.js:220, matched against a line
amountRegexes(k, s) ==
    CASE k = 1 -> Leftmost(s, total1At)
      [] k = 2 -> Leftmost(s, symbolAt)
      [] k = 3 -> Leftmost(s, unitAt)

\* the single alternation amountRegex of part_003:738; the value is
\* amountMatch[1] || amountMatch[2] || amountMatch[3]
anyAmountAt(s, i) ==
    IF total2At(s, i) # NULL THEN total2At(s, i)
    ELSE IF symbolAt(s, i) # NULL THEN symbolAt(s, i)
    ELSE unitAt(s, i)

amountRegex_p3v722(s) == Leftmost(s, anyAmountAt)

\* the string with its commas kept
removeCommas_kept(str) == str

\* str.replace(/,/g, '')
removeCommas(str) == SelectSeq(str, LAMBDA c : c # ",")

\* parseInt(str.replace(/,/g, ''), 10)
parseAmount(str) == parseInt(removeCommas(str))

\* NaN > x and x > NaN are false
Greater(a, b) == a # NaN /\ b # NaN /\ a > b

\* the maxAmount loops of src/server.js:229: lines from k on, regexes from j on
RECURSIVE maxAmount_srv153(_, _, _, _)
maxAmount_srv153(lines, k, j, maxAmount) ==
    IF k > Len(lines) THEN maxAmount
    ELSE IF j > 3 THEN maxAmount_srv153(lines, k + 1, 1, maxAmount)
    ELSE LET g == amountRegexes(j, lines[k]) IN
         IF g # NULL /\ Greater(parseAmount(g), maxAmount)
         THEN maxAmount_srv153(lines, k, j + 1, parseAmount(g))
         ELSE maxAmount_srv153(lines, k, j + 1, maxAmount)

\* the amount part of the forEach of part_003:743
RECURSIVE maxAmount_p3v722(_, _, _)
maxAmount_p3v722(lines, k, maxAmount) ==
    IF k > Len(lines) THEN maxAmount
    ELSE LET g == amountRegex_p3v722(lines[k]) IN
         IF g # NULL /\ Len(g) > 0 /\ Greater(parseAmount(g), maxAmount)
         THEN maxAmount_p3v722(lines, k + 1, parseAmount(g))
         ELSE maxAmount_p3v722(lines, k + 1, maxAmount)

\* if (maxAmount > 0) result.amount = maxAmount
amountOf(maxAmount) == IF maxAmount > 0 THEN maxAmount ELSE NullNum

(***************************************************************************)
(* Notes (merchant line) extraction.                                       *)
(***************************************************************************)
\* UTF-16 code unit of a character of the model's alphabet
CodePoint(c) ==
    CASE c = "nen" -> 24180
      [] c = "gatsu" -> 26376
      [] c = "nichi" -> 26085
      [] c = "yen" -> 165
      [] c = "fwyen" -> 65509
      [] c = "en" -> 20870
      [] c = "gou" -> 21512
      [] c = "kei" -> 35336
      [] c = "shou" -> 23567
      [] c = "go" -> 12372
      [] c = "sei" -> 35531
      [] c = "kyuu" -> 27714
      [] c = "gaku" -> 38989
      [] c = "ten" -> 24215
      [] c = "shi" -> 26045
      [] c = "setsu" -> 35373
      [] c = "lpar" -> 65288
      [] c = "kabu" -> 26666
      [] c = "rpar" -> 65289
      [] c = "shiki" -> 24335
      [] c = "kai" -> 20250
      [] c = "sha" -> 31038
      [] c = "akinai" -> 21830
      [] c = "shoku" -> 39135
      [] c = "dou" -> 22530
      [] c = "ma" -> 12510
      [] c = "chouon" -> 12540
      [] c = "to" -> 12488
      [] c = "su" -> 12473
      [] c = "a_k" -> 12450
      [] c = "ryou" -> 38936
      [] c = "shuu" -> 21454
      [] c = "sho" -> 26360
      [] c = "akashi" -> 35388
      [] c = "kana" -> 12354
      [] c = "kin" -> 37329
      [] c = "bsl" -> 92
      [] c = "LF" -> 10
      [] c = "CR" -> 13
      [] c = "0" -> 48
      [] c = "1" -> 49
      [] c = "2" -> 50
      [] c = "3" -> 51
      [] c = "4" -> 52
      [] c = "5" -> 53
      [] c = "6" -> 54
      [] c = "7" -> 55
      [] c = "8" -> 56
      [] c = "9" -> 57
      [] c = "/" -> 47
      [] c = "." -> 46
      [] c = "-" -> 45
      [] c = ":" -> 58
      [] c = "," -> 44
      [] c = " " -> 32
      [] c = "#" -> 35
      [] c = "$" -> 36
      [] c = "a" -> 97
      [] c = "T" -> 84
      [] c = "O" -> 79
      [] c = "A" -> 65
      [] c = "L" -> 76
      [] c = "C" -> 67
      [] c = "R" -> 82
      [] c = "_" -> 95

\* ten|shi setsu|(kabu)|kabu shiki kai sha|akinai ten|shoku dou|ma - to|su to a
priorityKeywords ==
    {<<"ten">>, <<"shi", "setsu">>, <<"lpar", "kabu", "rpar">>,
     <<"kabu", "shiki", "kai", "sha">>, <<"akinai", "ten">>, <<"shoku", "dou">>,
     <<"ma", "chouon", "to">>, <<"su", "to", "a_k">>}

\* ryou shuu sho | ryou shuu akashi
receiptWords == {<<"ryou", "shuu", "sho">>, <<"ryou", "shuu", "akashi">>}

\* some word of W occurs in s
ContainsAny(s, W) == \E w \in W : \E i \in 1..Len(s) : StandsAt(s, i, w)

\* the class [/-nen.]: the range from "/" to "nen", and "."
InSlashToNen(c) ==
    c # "" /\ (c = "." \/ (CodePoint(c) >= CodePoint("/") /\ CodePoint(c) <= CodePoint("nen")))

\* /[0-9]{2,}[/-nen.]/.test(s)
dateLike(s) == \E i \in 1..Len(s) : Digs(s, i, 2) /\ InSlashToNen(At(s, i + 2))

\* /[yen bsl # fwyen]?[0-9,]{3,}/.test(s)
amountLike(s) == \E i \in 1..Len(s) : RunLen(s, i) >= 3

\* the condition under which a candidate line becomes the notes
isStoreName(s) ==
    /\ Len(s) > 1
    /\ Len(s) < 30
    /\ ContainsAny(s, priorityKeywords)
    /\ ~ContainsAny(s, receiptWords)
    /\ ~dateLike(s)
    /\ ~amountLike(s)

\* the first store-name line among lines k..6, else the value none
RECURSIVE storeName(_, _, _)
storeName(lines, k, none) ==
    IF k > Len(lines) \/ k > 6 THEN none
    ELSE IF isStoreName(lines[k]) THEN lines[k]
    ELSE storeName(lines, k + 1, none)

(***************************************************************************)
(* The versions of parseReceiptText.  The value is [threw, date, amount,   *)
(* notes]; threw tells that the call ended with an exception.              *)
(***************************************************************************)
\* a result whose notes are its date
Returned_notesFromDate(date, amount, notes) ==
    [threw |-> FALSE, date |-> date, amount |-> amount, notes |-> date]

Returned(date, amount, notes) ==
    [threw |-> FALSE, date |-> date, amount |-> amount, notes |-> notes]

Thrown == [threw |-> TRUE, date |-> NULL, amount |-> NullNum, notes |-> NULL]

\* typeof text === 'string'
isString(tx) == tx # NULL

\* src/server.js:153
parseReceiptText_srv153(tx, t) ==
    IF ~isString(tx) THEN Thrown            \* text.split: TypeError, no try
    ELSE LET lines == normalizeLines(tx) IN
         Returned(scanDate(dateFormats_srv153, lines, 1, t),
                  amountOf(maxAmount_srv153(lines, 1, 1, 0)),
                  storeName(lines, 1, <<>>))

\* src/server.js:542, the date loop of the fragment
parseReceiptText_srv542(tx, t) ==
    IF ~isString(tx) THEN Returned(NULL, NullNum, <<>>)   \* caught by the try
    ELSE Returned(scanDate_srv542(normalizeLines(tx), 1, NULL, t), NullNum, <<>>)

dateFormats_srv672 == <<"YYYY/MM/DD", "MM/DD/YYYY", "MM/DD/YY", "MM/DD">>

\* if (!result.date) result.date = new Date().toISOString().slice(0, 10)
todayIfNone(date, t) == IF date = NULL \/ date = <<>> THEN todayISO(t) ELSE date

\* src/server.js:672; the catch of line 783 encloses the body
parseReceiptText_srv672(tx, t) ==
    IF ~isString(tx) THEN Returned(NULL, NullNum, <<>>)   \* caught
    ELSE LET lines == normalizeLines(tx) IN
         Returned(todayIfNone(scanDate(dateFormats_srv672, lines, 1, t), t),
                  amountOf(maxAmount_srv153(lines, 1, 1, 0)),
                  storeName(lines, 1, <<>>))

\* src/unnamed/part_003:153
parseReceiptText_p3v153(tx, t) ==
    IF ~isString(tx) THEN Returned(<<>>, NullNum, <<>>)   \* caught
    ELSE LET lines == normalizeLines(tx)
             best == lineLoop_p3v153(lines, 1, noBestMatch, t)
         IN  Returned(IF best.found THEN dateOfBestMatch(best) ELSE <<>>,
                      NullNum,
                      join(lines))

dateFormats_p3v722 ==
    <<"YYYYnenMMgatsuDDnichi", "YYYY/MM/DD", "MM/DD/YYYY", "YY/MM/DD", "MM/DD">>

dateFormats_p4v283 ==
    <<"YYYYnenMMgatsuDDnichi", "YYYY/MM/DD", "MM/DD/YYYY", "YY/MM/DD">>

\* the refactored single pass, over the date formats of the version
singlePass(formats, tx, t) ==
    IF ~isString(tx) \/ tx = <<>> THEN Returned(NULL, NullNum, NULL)
    ELSE LET lines == normalizeLines(tx) IN
         Returned(todayIfNone(scanDate(formats, lines, 1, t), t),
                  amountOf(maxAmount_p3v722(lines, 1, 0)),
                  storeName(lines, 1, NULL))

\* src/unnamed/part_003:722
parseReceiptText_p3v722(tx, t) == singlePass(dateFormats_p3v722, tx, t)

\* src/unnamed/part_004:283
parseReceiptText_p4v283(tx, t) == singlePass(dateFormats_p4v283, tx, t)

(***************************************************************************)
(* src/unnamed/part_001:185  the first revision: three date patterns with  *)
(* the separators [/-], the first amount found, notes from three lines.    *)
(***************************************************************************)
\* result = { date: '', amount: '', notes: '' }: the amount that is the
\* empty string, a third value below zero
EmptyAmount == -3

\* the line with every "." replaced by a character no date pattern matches:
\* the patterns of this revision accept [/-] between the groups, not "."
maskDots(s) == [i \in 1..Len(s) |-> IF s[i] = "." THEN "kana" ELSE s[i]]

\* dateRegexes[k - 1], matched against a line
dateRegexes_p1v185(k, s) ==
    CASE k = 1 -> re_YYYYMMDD(maskDots(s))
      [] k = 2 -> re_MMDDYYYY(maskDots(s))
      [] k = 3 -> re_MMDD_srv542(maskDots(s))

\* the if / else-if chain on the shape of the match
dateOfMatch_p1v185(m, t) ==
    IF Len(m.g) = 3 /\ Len(m.g[3]) = 4 THEN FormatYMD(m.g[3], m.g[1], m.g[2])
    ELSE IF Len(m.g[1]) = 4 THEN FormatYMD(m.g[1], m.g[2], m.g[3])
    ELSE IF Len(m.g) = 2 THEN FormatYMD(NumToStr(getFullYear(t)), m.g[1], m.g[2])
    ELSE <<>>

\* for (const regex of dateRegexes) { if (match && !result.date) {...; break;} }
RECURSIVE tryRegexes_p1v185(_, _, _, _)

\* if (match && !result.date) on the match m of regex k
onMatch_p1v185(k, line, date, t, m) ==
    IF m.ok /\ date = <<>> THEN dateOfMatch_p1v185(m, t)
    ELSE tryRegexes_p1v185(k + 1, line, date, t)

tryRegexes_p1v185(k, line, date, t) ==
    IF k > 3 THEN date
    ELSE onMatch_p1v185(k, line, date, t, dateRegexes_p1v185(k, line))

RECURSIVE scanDate_p1v185(_, _, _, _)
scanDate_p1v185(lines, k, date, t) ==
    IF k > Len(lines) THEN date
    ELSE scanDate_p1v185(lines, k + 1, tryRegexes_p1v185(1, lines[k], date, t), t)

\* [yen fwyen]
IsYen(c) == c \in {"yen", "fwyen"}

\* the position after [yen fwyen]? at q
afterYen(s, q) == IF IsYen(At(s, q)) THEN q + 1 ELSE q

\* ([0-9,]+) at position r: the captured group, or NULL
runFrom(s, r) == IF RunLen(s, r) >= 1 THEN Sub(s, r, RunLen(s, r)) ELSE NULL

\* ([0-9,]+)[\s]*en at position r
runBeforeUnit(s, r) ==
    IF RunLen(s, r) >= 1 /\ At(s, SkipSpaces(s, r + RunLen(s, r))) = "en"
    THEN Sub(s, r, RunLen(s, r))
    ELSE NULL

\* /[yen fwyen]?[\s]*([0-9,]+)[\s]*en/ tried at position i
yenUnitAt_p1v185(s, i) == runBeforeUnit(s, SkipSpaces(s, afterYen(s, i)))

\* /w[\s]*[yen fwyen]?[\s]*([0-9,]+)/ tried at position i
wordAmountAt(s, i, w) ==
    IF StandsAt(s, i, w)
    THEN runFrom(s, SkipSpaces(s, afterYen(s, SkipSpaces(s, i + Len(w)))))
    ELSE NULL

\* /gou kei[\s]*[yen fwyen]?[\s]*([0-9,]+)/
goukeiAt_p1v185(s, i) == wordAmountAt(s, i, <<"gou", "kei">>)

\* /shou kei[\s]*[yen fwyen]?[\s]*([0-9,]+)/
shoukeiAt_p1v185(s, i) == wordAmountAt(s, i, <<"shou", "kei">>)

\* /[yen fwyen]([0-9,]+)/ tried at position i
yenAt_p1v185(s, i) == IF IsYen(At(s, i)) THEN runFrom(s, i + 1) ELSE NULL

\* /([0-9,]{3,})en/ tried at position i
unit3At_p1v185(s, i) ==
    IF RunLen(s, i) >= 3 /\ At(s, i + RunLen(s, i)) = "en"
    THEN Sub(s, i, RunLen(s, i))
    ELSE NULL

\* amountRegexes[k - 1], matched against a line: match[1], or NULL
amountRegexes_p1v185(k, s) ==
    CASE k = 1 -> Leftmost(s, yenUnitAt_p1v185)
      [] k = 2 -> Leftmost(s, goukeiAt_p1v185)
      [] k = 3 -> Leftmost(s, shoukeiAt_p1v185)
      [] k = 4 -> Leftmost(s, yenAt_p1v185)
      [] k = 5 -> Leftmost(s, unit3At_p1v185)

\* result.amount as a condition: '', 0 and NaN are falsy
truthyAmount(a) == a > 0

\* the amount loops: lines from k on, regexes from j on
RECURSIVE firstAmount_p1v185(_, _, _, _)

\* if (match && !result.amount) { result.amount = parseInt(...); break; }
onAmount_p1v185(lines, k, j, amount, g) ==
    IF g # NULL /\ ~truthyAmount(amount)
    THEN firstAmount_p1v185(lines, k + 1, 1, parseAmount(g))
    ELSE firstAmount_p1v185(lines, k, j + 1, amount)

firstAmount_p1v185(lines, k, j, amount) ==
    IF k > Len(lines) THEN amount
    ELSE IF j > 5 THEN firstAmount_p1v185(lines, k + 1, 1, amount)
    ELSE onAmount_p1v185(lines, k, j, amount, amountRegexes_p1v185(j, lines[k]))

\* /[yen fwyen]?[0-9,]+/.test(s)
hasAmountChar(s) == \E i \in 1..Len(s) : IsAmountChar(s[i])

\* the condition under which a candidate line becomes the notes
isCandidate_p1v185(s) ==
    /\ Len(s) > 1
    /\ Len(s) < 30
    /\ ~re_YYYYMMDD(maskDots(s)).ok
    /\ ~hasAmountChar(s)

\* the first candidate among lines k..3, else ''
RECURSIVE storeName_p1v185(_, _)
storeName_p1v185(lines, k) ==
    IF k > Len(lines) \/ k > 3 THEN <<>>
    ELSE IF isCandidate_p1v185(lines[k]) THEN lines[k]
    ELSE storeName_p1v185(lines, k + 1)

\* the body of the try, on the normalized lines
body_p1v185(lines, t) ==
    Returned(todayIfNone(scanDate_p1v185(lines, 1, <<>>, t), t),
             firstAmount_p1v185(lines, 1, 1, EmptyAmount),
             storeName_p1v185(lines, 1))

\* src/unnamed/part_001:185
parseReceiptText_p1v185(tx, t) ==
    IF ~isString(tx) THEN Returned(<<>>, EmptyAmount, <<>>)   \* caught
    ELSE body_p1v185(normalizeLines(tx), t)

(***************************************************************************)
(* src/unnamed/part_002:89  parseReceipt: patterns matched against the     *)
(* whole text, and defaults in place of absent fields.                     *)
(***************************************************************************)
\* 'OCR kara no tekiyou', the notes of a text whose first line is empty
defaultNotes_p2v89 == <<"O", "C", "R", "kana", "kana", "kana", "kana", "kana">>

\* text.split('\n')[0]
RECURSIVE firstSegment(_, _)
firstSegment(tx, k) ==
    IF k > Len(tx) \/ tx[k] = "LF" THEN <<>>
    ELSE <<tx[k]>> \o firstSegment(tx, k + 1)

\* notes.substring(0, 50)
substring50(str) == IF Len(str) > 50 THEN SubSeq(str, 1, 50) ELSE str

\* text.split('\n')[0] || 'OCR kara no tekiyou', cut to 50 characters
notes_p2v89(seg) == substring50(IF seg = <<>> THEN defaultNotes_p2v89 ELSE seg)

\* [nen/.-]
IsSep1_p2v89(c) == c \in {"nen", "/", "-", "."}

\* [gatsu/.-]
IsSep2_p2v89(c) == c \in {"gatsu", "/", "-", "."}

\* the lengths a with (\d{a})[gatsu/.-] at position p
monthLens_p2v89(s, p) == {a \in 1..2 : Digs(s, p, a) /\ IsSep2_p2v89(At(s, p + a))}

\* the lengths b with (\d{b}) at position p
dayLens_p2v89(s, p) == {b \in 1..2 : Digs(s, p, b)}

\* `${year}-${month.padStart(2, '0')}-${day.padStart(2, '0')}` of the match
\* at i whose month has a characters and whose day has b
dateFrom_p2v89(s, i, a, b) ==
    FormatYMD(Sub(s, i, 4), Sub(s, i + 5, a), Sub(s, i + 6 + a, b))

\* the match at i whose month has a characters: the day is greedy
dateWithMonth_p2v89(s, i, a) ==
    dateFrom_p2v89(s, i, a, Max(dayLens_p2v89(s, i + 6 + a)))

\* the month lengths that let dateRegex match at i
monthsAt_p2v89(s, i) ==
    {a \in monthLens_p2v89(s, i + 5) : dayLens_p2v89(s, i + 6 + a) # {}}

\* /(\d{4})[nen/.-](\d{1,2})[gatsu/.-](\d{1,2})nichi?/ tried at position i: the
\* date of the match, or NULL
dateRegexAt_p2v89(s, i) ==
    IF Digs(s, i, 4) /\ IsSep1_p2v89(At(s, i + 4)) /\ monthsAt_p2v89(s, i) # {}
    THEN dateWithMonth_p2v89(s, i, Max(monthsAt_p2v89(s, i)))
    ELSE NULL

\* the words of (?:gou kei|sei kyuu gaku|yen|bsl)
amountWords_p2v89 ==
    {<<"gou", "kei">>, <<"sei", "kyuu", "gaku">>, <<"yen">>, <<"bsl">>}

\* /(?:gou kei|sei kyuu gaku|yen|bsl)\s*([\d,]+)/i tried at position i with
\* the word w
wordRunAt_p2v89(s, i, w) ==
    IF StandsAt(s, i, w) THEN runFrom(s, SkipSpaces(s, i + Len(w))) ELSE NULL

\* the words that let the first pattern match at i
wordsAt_p2v89(s, i) == {w \in amountWords_p2v89 : wordRunAt_p2v89(s, i, w) # NULL}

anchoredAt_p2v89(s, i) ==
    IF wordsAt_p2v89(s, i) = {} THEN NULL
    ELSE wordRunAt_p2v89(s, i, CHOOSE w \in wordsAt_p2v89(s, i) : TRUE)

\* length of the run of \d starting at p
RECURSIVE digitRun(_, _)
digitRun(s, p) == IF IsDigit(At(s, p)) THEN 1 + digitRun(s, p + 1) ELSE 0

\* the number of (?:,\d{3}) repeated at p, greedy
RECURSIVE commaGroups(_, _)
commaGroups(s, p) ==
    IF At(s, p) = "," /\ Digs(s, p + 1, 3) THEN 1 + commaGroups(s, p + 4) ELSE 0

\* the length of \d{d}(?:,\d{3})* at position i
groupedLen(s, i, d) == d + 4 * commaGroups(s, i + d)

\* /(\d{1,3}(?:,\d{3})*)\s*unit/ tried at position i: the run of digits at i
\* has d characters
groupedBefore(s, i, d, unit) ==
    IF d \in 1..3 /\ At(s, SkipSpaces(s, i + groupedLen(s, i, d))) = unit
    THEN Sub(s, i, groupedLen(s, i, d))
    ELSE NULL

\* /(\d{1,3}(?:,\d{3})*)\s*en/ tried at position i
beforeEnAt_p2v89(s, i) == groupedBefore(s, i, digitRun(s, i), "en")

\* /(\d{1,3}(?:,\d{3})*)\s*yen/ tried at position i
beforeYenAt_p2v89(s, i) == groupedBefore(s, i, digitRun(s, i), "yen")

\* amountPatterns[k - 1], matched against the text: amountMatch[1], or NULL
amountPatterns_p2v89(k, s) ==
    CASE k = 1 -> Leftmost(s, anchoredAt_p2v89)
      [] k = 2 -> Leftmost(s, beforeEnAt_p2v89)
      [] k = 3 -> Leftmost(s, beforeYenAt_p2v89)

\* for (const pattern of amountPatterns) {...}: the amount, or NullNum
RECURSIVE patternAmount_p2v89(_, _)

\* if (!isNaN(parsedAmount) && parsedAmount > 0) { amount = parsedAmount; break; }
onParsed_p2v89(k, s, parsedAmount) ==
    IF parsedAmount # NaN /\ parsedAmount > 0 THEN parsedAmount
    ELSE patternAmount_p2v89(k + 1, s)

\* if (amountMatch && amountMatch[1])
onPattern_p2v89(k, s, g) ==
    IF g # NULL THEN onParsed_p2v89(k, s, parseAmount(g))
    ELSE patternAmount_p2v89(k + 1, s)

patternAmount_p2v89(k, s) ==
    IF k > 3 THEN NullNum
    ELSE onPattern_p2v89(k, s, amountPatterns_p2v89(k, s))

\* text.match(/\d{1,3}(?:,\d{3})*/g) from position p on, each match parsed
RECURSIVE numbers_p2v89(_, _)

\* the match of d digits and its comma groups at p, then the rest
numberAt_p2v89(s, p, d) ==
    {parseAmount(Sub(s, p, groupedLen(s, p, d)))}
        \cup numbers_p2v89(s, p + groupedLen(s, p, d))

numbers_p2v89(s, p) ==
    IF p > Len(s) THEN {}
    ELSE IF IsDigit(s[p]) THEN numberAt_p2v89(s, p, Min({3, digitRun(s, p)}))
    ELSE numbers_p2v89(s, p + 1)

\* .filter(n => !isNaN(n) && n > 100).sort((a, b) => b - a)[0], or NullNum
largest_p2v89(potentialAmounts) ==
    IF potentialAmounts = {} THEN NullNum ELSE Max(potentialAmounts)

\* if (!amount) {...}
fallbackAmount_p2v89(s, amount) ==
    IF amount # NullNum THEN amount
    ELSE largest_p2v89({n \in numbers_p2v89(s, 1) : n # NaN /\ n > 100})

\* amount || 0
orZero(amount) == IF amount = NullNum THEN 0 ELSE amount

\* src/unnamed/part_002:89; text.split throws on a text that is no string
parseReceipt_p2v89(tx, t) ==
    IF ~isString(tx) THEN Thrown
    ELSE Returned(todayIfNone(Leftmost(tx, dateRegexAt_p2v89), t),
                  orZero(fallbackAmount_p2v89(tx, patternAmount_p2v89(1, tx))),
                  notes_p2v89(firstSegment(tx, 1)))

(***************************************************************************)
(* Inputs.  A text is NULL (absent) or a raw string; the strings are built *)
(* from date-shaped tokens with digit groups drawn from NumToks, wrapped   *)
(* in Affixes, and from multi-line receipts over ReceiptLines.             *)
(***************************************************************************)
MaxLines == 2

NumToks ==
    {<<"2">>, <<"1", "2">>, <<"1", "3">>, <<"5", "0">>, <<"3", "4", "5">>,
     <<"2", "0", "2", "4">>}

Affixes == {<<>>, <<"a">>, <<"1">>}

\* P n1/n2/n3 Q
ThreePartLines ==
    {P \o n1 \o <<"/">> \o n2 \o <<"/">> \o n3 \o Q :
        n1 \in NumToks, n2 \in NumToks, n3 \in NumToks, P \in Affixes, Q \in Affixes}

\* P n1/n2 Q, also with the other separators and a colon
TwoPartLines ==
    {P \o n1 \o <<sep>> \o n2 \o Q :
        n1 \in NumToks, n2 \in NumToks, sep \in {"/", "-", ".", ":"},
        P \in Affixes, Q \in Affixes}

\* every two-digit year 00..99, leading and trailing
TwoDigitYears == {<<Digits[a + 1], Digits[b + 1]>> : a \in 0..9, b \in 0..9}

\* yy/03/15
LeadingYearLine(yy) == yy \o <<"/", "0", "3", "/", "1", "5">>

\* 3-15-yy
TrailingYearLine(yy) == <<"3", "-", "1", "5", "-">> \o yy

TwoDigitYearLines ==
    {LeadingYearLine(yy) : yy \in TwoDigitYears}
      \cup {TrailingYearLine(yy) : yy \in TwoDigitYears}

CoreLines ==
    {<<"a">>,
     <<"2", "/", "1", "2">>,
     <<"2", "/", "2", "9">>,
     <<"2", "/", "3", "0">>,
     <<"2", "0", "2", "4", "/", "2", "/", "2", "9">>,
     <<"2", "0", "2", "5", "-", "0", "9", "-", "1", "0">>,
     <<"1", "3", "/", "4", "0", "/", "2", "0", "2", "4">>,
     <<"1", "2", "/", "1", "1", "/", "2", "0", "2", "4">>,
     <<"2", "0", "2", "5", "nen", "9", "gatsu", "1", "0", "nichi">>,
     <<"2", "4", "/", "0", "3", "/", "1", "5">>,
     <<"0", "9", "/", "1", "0", "/", "2", "5">>,
     <<"1", "/", "2", "/", "3", "4", "5">>,
     <<"kana", "kana", "shoku", "dou">>,
     <<"gou", "kei", " ", "yen", "5", ",", "0", "0", "0">>,
     <<"1", ",", "2", "0", "0", "en">>,
     <<"1", "4", ":", "3", "0", " ", "2", "0", "2", "4", "-", "0", "3", "-", "1", "5">>}

\* lines joined by line feeds
RECURSIVE joinLF(_)
joinLF(lines) ==
    IF Len(lines) = 0 THEN <<>>
    ELSE IF Len(lines) = 1 THEN lines[1]
    ELSE lines[1] \o <<"LF">> \o joinLF(Tail(lines))

RECURSIVE SeqsOfLen(_, _)
SeqsOfLen(S, n) ==
    IF n = 0 THEN {<<>>}
    ELSE {<<x>> \o q : x \in S, q \in SeqsOfLen(S, n - 1)}

\* the lines the multi-line receipts are made of
ReceiptLines ==
    {<<"a">>,
     <<"2", "/", "1", "2">>,
     <<"2", "0", "2", "4", "/", "2", "/", "2", "9">>,
     <<"2", "0", "2", "5", "-", "0", "9", "-", "1", "0">>,
     <<"1", "3", "/", "4", "0", "/", "2", "0", "2", "4">>,
     <<"2", "0", "2", "5", "nen", "9", "gatsu", "1", "0", "nichi">>,
     <<"kana", "kana", "shoku", "dou">>,
     <<"gou", "kei", " ", "yen", "5", ",", "0", "0", "0">>,
     <<"1", ",", "2", "0", "0", "en">>,
     <<",", ",", ",", "en">>}

MultiLineTexts ==
    UNION {{joinLF(q) : q \in SeqsOfLen(ReceiptLines, n)} : n \in 2..MaxLines}

\* a line with blanks around it and empty segments after it
PaddedTexts == {<<" ">> \o l \o <<" ", "LF", " ", "LF">> : l \in CoreLines}

\* a receipt dated 2025/09/10 with the total yen 5,000
Receipt_Total5000 ==
    joinLF(<<<<"2", "0", "2", "5", "/", "0", "9", "/", "1", "0">>,
             <<"gou", "kei", " ", "yen", "5", ",", "0", "0", "0">>>>)

\* a receipt dated 09/10/25 with TOTAL $50
Receipt_TotalDollar50 ==
    joinLF(<<<<"0", "9", "/", "1", "0", "/", "2", "5">>,
             <<"T", "O", "T", "A", "L", " ", "$", "5", "0">>>>)

\* a receipt dated 9-10 with kin gaku 3,000
Receipt_Kingaku3000 ==
    joinLF(<<<<"9", "-", "1", "0">>,
             <<"kin", "gaku", " ", "3", ",", "0", "0", "0">>>>)

\* the name of a restaurant
Sakura == <<"kana", "kana", "kana", "shoku", "dou">>

\* a receipt with the name of the store on its first line
Receipt_Sakura ==
    joinLF(<<Sakura,
             <<"2", "0", "2", "5", "/", "0", "9", "/", "1", "0">>,
             <<"gou", "kei", " ", "yen", "5", ",", "0", "0", "0">>>>)

\* the name of the store on the line at position n, after n - 1 other lines
RECURSIVE NameOnLine(_)
NameOnLine(n) ==
    IF n = 1 THEN Sakura ELSE <<"T", "LF">> \o NameOnLine(n - 1)

\* lines that end with carriage return and line feed, and an empty segment
Receipt_CRLF ==
    <<"a", "CR", "LF", " ", "CR", "LF", "2", "/", "1", "2", " ", "CR", "LF">>

\* the dates of the first and the seventh of testCases
DatedLines ==
    {<<"2", "0", "2", "4", "nen", "3", "gatsu", "1", "5", "nichi">>,
     <<"2", "0", "2", "4", "-", "0", "3", "-", "1", "5">>}

\* the line followed by the price yen 1,200
WithAmount(line) == line \o <<" ", "yen", "1", ",", "2", "0", "0">>

\* the line preceded by the time 14:30
WithTime(line) == <<"1", "4", ":", "3", "0", " ">> \o line

\* dated lines that also carry a price or a time
AugmentedLines ==
    {WithAmount(l) : l \in DatedLines} \cup {WithTime(l) : l \in DatedLines}

\* lines on which a keyword is followed by a short number: gou kei 5 and
\* gou kei 50 yen 1,200
KeywordAmountLines ==
    {<<"gou", "kei", " ", "5">>,
     <<"gou", "kei", " ", "5", "0", " ", "yen", "1", ",", "2", "0", "0">>}

ScenarioTexts ==
    {Receipt_Total5000, Receipt_TotalDollar50, Receipt_Kingaku3000,
     Receipt_Sakura, NameOnLine(6), NameOnLine(7), Receipt_CRLF}
      \cup DatedLines \cup AugmentedLines \cup KeywordAmountLines

Texts ==
    {NULL, <<>>, <<" ", "LF", " ">>}
      \cup ThreePartLines \cup TwoPartLines \cup TwoDigitYearLines
      \cup CoreLines \cup PaddedTexts \cup MultiLineTexts \cup ScenarioTexts

\* 2025-09-20 during the day (2025 is no leap year); 2024-03-30 at midnight
Nows ==
    {[y |-> 2025, m |-> 9, d |-> 20, tod |-> 1],
     [y |-> 2024, m |-> 3, d |-> 30, tod |-> 0]}

\* 2024-03-30 during the day: 29 February 2024 lies more than 30 days back
LeapYearNow == [y |-> 2024, m |-> 3, d |-> 30, tod |-> 1]

\* bare month/day lines of the end of February
LeapYearTexts ==
    {<<"2", "/", "2", "9">>, <<"2", "/", "2", "8">>, <<"2", "-", "2", "9">>,
     <<"a", " ", "2", "/", "2", "9">>}

(***************************************************************************)
(* The services around the parser, before they are started.                *)
(***************************************************************************)
\* the module is loaded: let visionClient; no request, no exit
ServerIdle ==
    /\ build = "server.js"
    /\ server = "loaded"
    /\ visionClient = FALSE
    /\ selfTest = "none"
    /\ exit = <<>>
    /\ reqs = <<>>

MaxTransactions == 2

\* the (user_id, account_id) pairs of the requests
Pairs == {<<"u1", "a1">>, <<"u2", "a1">>}

\* a request to POST /api/transactions that has not arrived
noTransaction ==
    [pc |-> "none", pair |-> <<"u1", "a1">>, inserted |-> FALSE,
     bumped |-> FALSE, committed |-> FALSE, acquired |-> FALSE,
     released |-> 0, status |-> 0]

\* empty tables, no lock, no request
LedgerIdle ==
    /\ transactions = [p \in Pairs |-> 0]
    /\ user_account_usage = [p \in Pairs |-> 0]
    /\ rowLock = [p \in Pairs |-> 0]
    /\ txs = [i \in 1..MaxTransactions |-> noTransaction]

\* the value undefined
UNDEFINED == <<"undefined">>

\* no request to a protected route; the secret of the deployment
AuthIdle ==
    /\ JWT_SECRET = <<"k1">>
    /\ calls = <<>>

\* no user, no request to POST /api/login
LoginIdle ==
    /\ users = {}
    /\ logins = <<>>

ServiceIdle == ServerIdle /\ LedgerIdle /\ AuthIdle /\ LoginIdle

(***************************************************************************)
(* The state machine: one call of one version on the input.                *)
(***************************************************************************)
noResult == Returned(NULL, NullNum, NULL)

\* first before any call has ended; t is the clock
noFirst(t) == [done |-> FALSE, result |-> noResult, at |-> t]

Init ==
    /\ \/ text \in Texts /\ now \in Nows
       \/ text \in LeapYearTexts /\ now = LeapYearNow
    /\ pc = "idle"
    /\ version = "none"
    /\ result = noResult
    /\ first = noFirst(now)
    /\ normalized = <<>>
    /\ ServiceIdle

\* const lines = text.split('\n').map(...).filter(...) of version v: the local
\* of the call; parseReceipt of part_002 and a call on no string have none
linesOf(v, tx) ==
    IF isString(tx) /\ v # "p2v89" THEN normalizeLines(tx) ELSE <<>>

\* a call of version v; a second call is a call of the same version
Call(v, r) ==
    /\ pc = "idle"
    /\ version \in {"none", v}
    /\ pc' = IF r.threw THEN "threw" ELSE "returned"
    /\ version' = v
    /\ result' = r
    /\ normalized' = linesOf(v, text)
    /\ UNCHANGED <<text, now, first, serviceVars>>

Call_srv153 == Call("srv153", parseReceiptText_srv153(text, now))

Call_srv542 == Call("srv542", parseReceiptText_srv542(text, now))

Call_srv672 == Call("srv672", parseReceiptText_srv672(text, now))

Call_p3v153 == Call("p3v153", parseReceiptText_p3v153(text, now))

Call_p3v722 == Call("p3v722", parseReceiptText_p3v722(text, now))

Call_p4v283 == Call("p4v283", parseReceiptText_p4v283(text, now))

Call_p1v185 == Call("p1v185", parseReceiptText_p1v185(text, now))

Call_p2v89 == Call("p2v89", parseReceipt_p2v89(text, now))

Next ==
    \/ Call_srv153
    \/ Call_srv542
    \/ Call_srv672
    \/ Call_p3v153
    \/ Call_p3v722
    \/ Call_p4v283
    \/ Call_p1v185
    \/ Call_p2v89

Spec == Init /\ [][Next]_vars

(***************************************************************************)
(* Two calls on the same text: the caller keeps the outcome of the first   *)
(* call and calls the same version again; the clock advances in between.   *)
(***************************************************************************)
\* the texts of the repeated calls
TwiceTexts == {NULL, <<>>} \cup CoreLines \cup ScenarioTexts

InitTwice ==
    /\ text \in TwiceTexts
    /\ now \in Nows
    /\ pc = "idle"
    /\ version = "none"
    /\ result = noResult
    /\ first = noFirst(now)
    /\ normalized = <<>>
    /\ ServiceIdle

\* the first call has ended: its outcome is kept and the caller calls again
Again ==
    /\ pc \in {"returned", "threw"}
    /\ ~first.done
    /\ first' = [done |-> TRUE, result |-> result, at |-> now]
    /\ pc' = "idle"
    /\ result' = noResult
    /\ normalized' = <<>>
    /\ UNCHANGED <<text, now, version, serviceVars>>

\* time passes between the calls: new Date() reads another instant
Elapse ==
    /\ pc = "idle"
    /\ first.done
    /\ now' \in Nows \ {now}
    /\ UNCHANGED <<text, pc, version, result, first, normalized, serviceVars>>

NextTwice ==
    \/ Next
    \/ Again
    \/ Elapse

SpecTwice == InitTwice /\ [][NextTwice]_vars

(***************************************************************************)
(* The OCR server process: startup and POST /api/ocr of src/server.js, and *)
(* the startup and the same route of src/index.js.  An await is a step:    *)
(* the process waits until the awaited call settles.                       *)
(***************************************************************************)
MaxRequests == 2

Builds == {"server.js", "index.js"}

\* process.env as startServer finds it
Environments == {"complete", "missing", "badJson"}

\* how accessSecretVersion of index.js settles
SecretOutcomes == {"credentials", "badJson", "error"}

\* what a request uploads in the field 'file'
Uploads == {"none", "image", "document", "oversized"}

\* the texts the Vision service detects
OcrTexts == {Receipt_Total5000, <<"a">>}

\* how visionClient.textDetection settles
VisionOutcomes ==
    {[kind |-> "error", text |-> <<>>], [kind |-> "empty", text |-> <<>>]}
      \cup {[kind |-> "text", text |-> t] : t \in OcrTexts}

\* the parser at rest while the server runs
ParserIdle ==
    /\ text = NULL
    /\ now \in Nows
    /\ pc = "idle"
    /\ version = "none"
    /\ result = noResult
    /\ first = noFirst(now)
    /\ normalized = <<>>

InitServer ==
    /\ ParserIdle
    /\ LedgerIdle
    /\ AuthIdle
    /\ LoginIdle
    /\ build \in Builds
    /\ server = "loaded"
    /\ visionClient = FALSE
    /\ selfTest = "none"
    /\ exit = <<>>
    /\ reqs = <<>>

\* startServer of server.js up to the first await: initializeGoogleCloudAuth
\* throws on an incomplete environment, else it creates the client and
\* awaits testAuthentication
startServer(env) ==
    /\ build = "server.js"
    /\ server = "loaded"
    /\ IF env = "complete"
       THEN /\ visionClient' = TRUE
            /\ selfTest' = "pending"
            /\ server' = "awaiting"
       ELSE /\ server' = "rejected"
            /\ UNCHANGED <<visionClient, selfTest>>
    /\ UNCHANGED <<build, exit, reqs, besideServer>>

\* testAuthentication throws after a failed connection test
afterSelfTest_rethrows(ok) == IF ok THEN "initialized" ELSE "rejected"

\* testAuthentication catches the error of its connection test and warns
afterSelfTest(ok) == "initialized"

\* the connection test of testAuthentication settles
testAuthentication(ok) ==
    /\ build = "server.js"
    /\ server = "awaiting"
    /\ selfTest' = IF ok THEN "ok" ELSE "failed"
    /\ server' = afterSelfTest(ok)
    /\ UNCHANGED <<build, visionClient, exit, reqs, besideServer>>

\* initializeVisionClient of index.js up to its await
initializeVisionClient(env) ==
    /\ build = "index.js"
    /\ server = "loaded"
    /\ server' = IF env = "missing" THEN "rejected" ELSE "awaiting"
    /\ UNCHANGED <<build, visionClient, selfTest, exit, reqs, besideServer>>

\* accessSecretVersion settles: the payload is parsed and the client created
accessSecretVersion(outcome) ==
    /\ build = "index.js"
    /\ server = "awaiting"
    /\ visionClient' = (outcome = "credentials")
    /\ server' = IF outcome = "credentials" THEN "initialized" ELSE "rejected"
    /\ UNCHANGED <<build, selfTest, exit, reqs, besideServer>>

\* the catch of the startup: process.exit(1)
processExit ==
    /\ server = "rejected"
    /\ server' = "exited"
    /\ exit' = <<1>>
    /\ UNCHANGED <<build, visionClient, selfTest, reqs, besideServer>>

\* app.listen after the initialization
listen ==
    /\ server = "initialized"
    /\ server' = "listening"
    /\ UNCHANGED <<build, visionClient, selfTest, exit, reqs, besideServer>>

Response(status, code) == [status |-> status, code |-> code]

\* a request as it arrives: no reply yet, the handler not entered
newRequest(u) ==
    [upload |-> u, at |-> "arrived", entered |-> FALSE, client |-> FALSE,
     responses |-> <<>>, visionCalls |-> 0, vision |-> "none",
     parsed |-> noResult, rawText |-> NULL]

\* a POST /api/ocr arrives at the listening server
arrive(u) ==
    /\ server = "listening"
    /\ Len(reqs) < MaxRequests
    /\ reqs' = Append(reqs, newRequest(u))
    /\ UNCHANGED <<build, server, visionClient, selfTest, exit, besideServer>>

\* upload.single('file'): the error multer passes on, "" when it passes the
\* request to the handler; index.js has a size limit and no fileFilter
uploadError(b, u) ==
    CASE u = "oversized" -> "LIMIT_FILE_SIZE"
      [] u = "document" /\ b = "server.js" -> "fileFilter"
      [] OTHER -> ""

\* the error-handling middleware; index.js has none, and the default handler
\* of express answers 500
errorHandler(b, err) ==
    IF b = "server.js"
    THEN IF err = "LIMIT_FILE_SIZE" THEN Response(400, "FILE_TOO_LARGE")
         ELSE Response(500, "INTERNAL_SERVER_ERROR")
    ELSE Response(500, "")

\* res.status(...).json(...) on request r, which ends it
reply(r, response) ==
    [r EXCEPT !.responses = Append(@, response), !.at = "done"]

\* the handler reads visionClient
enter(r, client) == [r EXCEPT !.entered = TRUE, !.client = client]

\* if (!visionClient)
clientNotInitialized(b) ==
    IF b = "server.js" THEN Response(503, "CLIENT_NOT_INITIALIZED")
    ELSE Response(500, "")

\* if (!req.file)
noFileUploaded(b) ==
    IF b = "server.js" THEN Response(400, "NO_FILE_UPLOADED")
    ELSE Response(400, "")

\* the handler without the test of req.file
handle_noFileTest(b, r, client) ==
    IF ~client THEN reply(enter(r, client), clientNotInitialized(b))
    ELSE [enter(r, client) EXCEPT !.at = "vision", !.visionCalls = @ + 1]

\* the handler on request r up to its await
handle(b, r, client) ==
    CASE ~client -> reply(enter(r, client), clientNotInitialized(b))
      [] client /\ r.upload = "none" ->
            reply(enter(r, client), noFileUploaded(b))
      [] OTHER ->
            [enter(r, client) EXCEPT !.at = "vision", !.visionCalls = @ + 1]

\* app.post('/api/ocr', upload.single('file'), ...) on request i: the upload
\* middleware, then the handler up to its await
postOcr(i) ==
    /\ i \in 1..Len(reqs)
    /\ reqs[i].at = "arrived"
    /\ reqs' = [reqs EXCEPT ![i] =
                  IF uploadError(build, @.upload) # ""
                  THEN reply(@, errorHandler(build, uploadError(build, @.upload)))
                  ELSE handle(build, @, visionClient)]
    /\ UNCHANGED <<build, server, visionClient, selfTest, exit, besideServer>>

\* res.json of a success: the parsed data and the raw text
success(r, parsed, raw) ==
    [reply(r, Response(200, "")) EXCEPT !.parsed = parsed, !.rawText = raw]

\* processOCR of server.js and the rest of its handler, once textDetection
\* has settled with outcome o at time t
processOCR(r, o, t) ==
    CASE o.kind = "error" -> reply(r, Response(500, "OCR_PROCESSING_ERROR"))
      [] o.kind = "empty" ->
            success(r, Returned(<<>>, EmptyAmount, <<>>), <<>>)
      [] OTHER ->
            IF parseReceiptText_srv153(o.text, t).threw
            THEN reply(r, Response(500, "OCR_PROCESSING_ERROR"))
            ELSE success(r, parseReceiptText_srv153(o.text, t), o.text)

\* the rest of the handler of index.js; the data it extracts from the text
\* with its own patterns are left out
afterDetection_index(r, o) ==
    CASE o.kind = "error" -> reply(r, Response(500, ""))
      [] o.kind = "empty" -> reply(r, Response(404, ""))
      [] OTHER -> reply(r, Response(200, ""))

\* visionClient.textDetection of request i settles
textDetection(i, o) ==
    /\ i \in 1..Len(reqs)
    /\ reqs[i].at = "vision"
    /\ reqs' = [reqs EXCEPT ![i] =
                  IF build = "server.js"
                  THEN processOCR([@ EXCEPT !.vision = o.kind], o, now)
                  ELSE afterDetection_index([@ EXCEPT !.vision = o.kind], o)]
    /\ UNCHANGED <<build, server, visionClient, selfTest, exit, besideServer>>

NextServer ==
    \/ \E env \in Environments : startServer(env)
    \/ \E ok \in BOOLEAN : testAuthentication(ok)
    \/ \E env \in Environments : initializeVisionClient(env)
    \/ \E outcome \in SecretOutcomes : accessSecretVersion(outcome)
    \/ processExit
    \/ listen
    \/ \E u \in Uploads : arrive(u)
    \/ \E i \in 1..MaxRequests : postOcr(i)
    \/ \E i \in 1..MaxRequests, o \in VisionOutcomes : textDetection(i, o)

SpecServer == InitServer /\ [][NextServer]_vars

\* the continuations of the startup run once they are enabled: the event loop
\* runs the catch and the code after the await; nothing is assumed of the
\* calls the process waits for
SpecServerFair ==
    SpecServer /\ WF_vars(processExit) /\ WF_vars(listen)

(***************************************************************************)
(* POST /api/transactions of src/unnamed/part_004: a transaction of the    *)
(* database on a pooled client.  An await is a step.  The database is      *)
(* PostgreSQL under READ COMMITTED: the changes of a transaction are seen  *)
(* by the others at its COMMIT; the upsert locks the row of its pair until *)
(* the transaction ends; a COMMIT that rejects has committed nothing; a    *)
(* ROLLBACK that rejects has lost its connection and the server aborts the *)
(* transaction.                                                            *)
(***************************************************************************)
InitLedger ==
    /\ ParserIdle
    /\ ServerIdle
    /\ LedgerIdle
    /\ AuthIdle
    /\ LoginIdle

\* request i changed by f, all else of the ledger as it is
step(i, t) == txs' = [txs EXCEPT ![i] = t]

\* the handler up to its first await: the test of the body, pool.connect()
postTransaction(i, pair, valid) ==
    /\ txs[i].pc = "none"
    /\ \A j \in 1..(i - 1) : txs[j].pc # "none"
    /\ step(i, IF valid
               THEN [txs[i] EXCEPT !.pc = "connect", !.pair = pair]
               ELSE [txs[i] EXCEPT !.pc = "done", !.pair = pair, !.status = 400])
    /\ UNCHANGED <<transactions, user_account_usage, rowLock, besideLedger>>

\* pool.connect() settles; a rejection leaves the handler, outside its try
connect(i, ok) ==
    /\ txs[i].pc = "connect"
    /\ step(i, IF ok THEN [txs[i] EXCEPT !.pc = "begin", !.acquired = TRUE]
               ELSE [txs[i] EXCEPT !.pc = "done"])
    /\ UNCHANGED <<transactions, user_account_usage, rowLock, besideLedger>>

\* client.query('BEGIN') settles
begin(i, ok) ==
    /\ txs[i].pc = "begin"
    /\ step(i, [txs[i] EXCEPT !.pc = IF ok THEN "insert" ELSE "catch"])
    /\ UNCHANGED <<transactions, user_account_usage, rowLock, besideLedger>>

\* INSERT INTO transactions ... settles
insertTransaction(i, ok) ==
    /\ txs[i].pc = "insert"
    /\ step(i, IF ok THEN [txs[i] EXCEPT !.pc = "upsert", !.inserted = TRUE]
               ELSE [txs[i] EXCEPT !.pc = "catch"])
    /\ UNCHANGED <<transactions, user_account_usage, rowLock, besideLedger>>

\* INSERT INTO user_account_usage ... ON CONFLICT ... DO UPDATE settles: it
\* waits for the lock on the row of its pair
upsertUsage(i, ok) ==
    /\ txs[i].pc = "upsert"
    /\ IF ok
       THEN /\ rowLock[txs[i].pair] = 0
            /\ rowLock' = [rowLock EXCEPT ![txs[i].pair] = i]
            /\ step(i, [txs[i] EXCEPT !.pc = "commit", !.bumped = TRUE])
       ELSE /\ step(i, [txs[i] EXCEPT !.pc = "catch"])
            /\ UNCHANGED rowLock
    /\ UNCHANGED <<transactions, user_account_usage, besideLedger>>

\* the locks without those of request i
unlocked(i) == [p \in Pairs |-> IF rowLock[p] = i THEN 0 ELSE rowLock[p]]

\* VALUES ($1, $2, 1) on every commit, the conflict ignored
usageAfterCommit_one(count) == 1

\* the usage_count of the pair after the commit of an upsert on the committed
\* count: 1 for a new row, usage_count + 1 on a conflict
usageAfterCommit(count) == IF count = 0 THEN 1 ELSE count + 1

\* client.query('COMMIT') settles; on success res.status(201)
commit(i, ok) ==
    /\ txs[i].pc = "commit"
    /\ IF ok
       THEN /\ transactions' = [transactions EXCEPT ![txs[i].pair] = @ + 1]
            /\ user_account_usage' =
                  [user_account_usage EXCEPT
                      ![txs[i].pair] = usageAfterCommit(@)]
            /\ rowLock' = unlocked(i)
            /\ step(i, [txs[i] EXCEPT !.pc = "finally", !.committed = TRUE,
                                      !.status = 201])
       ELSE /\ step(i, [txs[i] EXCEPT !.pc = "catch"])
            /\ UNCHANGED <<transactions, user_account_usage, rowLock>>
    /\ UNCHANGED besideLedger

\* the catch: client.query('ROLLBACK') settles; on success res.status(500),
\* on a rejection the error leaves the handler
rollback(i, ok) ==
    /\ txs[i].pc = "catch"
    /\ rowLock' = unlocked(i)
    /\ step(i, [txs[i] EXCEPT !.pc = "finally", !.inserted = FALSE,
                              !.bumped = FALSE,
                              !.status = IF ok THEN 500 ELSE 0])
    /\ UNCHANGED <<transactions, user_account_usage, besideLedger>>

\* finally: client.release()
release(i) ==
    /\ txs[i].pc = "finally"
    /\ step(i, [txs[i] EXCEPT !.pc = "done", !.released = @ + 1])
    /\ UNCHANGED <<transactions, user_account_usage, rowLock, besideLedger>>

Requests == 1..MaxTransactions

NextLedger ==
    \/ \E i \in Requests, pair \in Pairs, valid \in BOOLEAN :
          postTransaction(i, pair, valid)
    \/ \E i \in Requests, ok \in BOOLEAN : connect(i, ok)
    \/ \E i \in Requests, ok \in BOOLEAN : begin(i, ok)
    \/ \E i \in Requests, ok \in BOOLEAN : insertTransaction(i, ok)
    \/ \E i \in Requests, ok \in BOOLEAN : upsertUsage(i, ok)
    \/ \E i \in Requests, ok \in BOOLEAN : commit(i, ok)
    \/ \E i \in Requests, ok \in BOOLEAN : rollback(i, ok)
    \/ \E i \in Requests : release(i)

SpecLedger == InitLedger /\ [][NextLedger]_vars

(***************************************************************************)
(* authenticateToken of src/authMiddleware.js in front of the protected    *)
(* routes of src/unnamed/part_004.  A token is <<payload, key>>, with      *)
(* "exp" appended once it has expired; jwt.verify accepts the tokens       *)
(* signed with the secret and not expired.                                 *)
(***************************************************************************)
MaxCalls == 2

ProtectedRoutes ==
    {"GET /api/accounts", "GET /api/accounts/top10", "POST /api/transactions"}

Tokens ==
    {<<"u1", "k1">>, <<"u2", "k1">>, <<"u1", "k2">>, <<"u1", "k1", "exp">>}

\* req.headers['authorization']: absent, empty, a scheme alone, a token
\* alone, and Bearer tokens
AuthHeaders ==
    {UNDEFINED, <<>>, <<"Bearer">>}
      \cup Tokens
      \cup {<<"Bearer", " ">> \o t : t \in Tokens}

\* process.env.JWT_SECRET, undefined when the variable is not set
Secrets == {<<"k1">>, UNDEFINED}

InitAuth ==
    /\ ParserIdle
    /\ ServerIdle
    /\ LedgerIdle
    /\ LoginIdle
    /\ JWT_SECRET \in Secrets
    /\ calls = <<>>

\* the index of the first space of s from i on, Len(s) + 1 when there is none
spaceFrom(s, i) ==
    Min({k \in i..Len(s) : s[k] = " "} \cup {Len(s) + 1})

\* s.split(' ')[1]
secondPart(s) ==
    IF spaceFrom(s, 1) > Len(s) THEN UNDEFINED
    ELSE Sub(s, spaceFrom(s, 1) + 1,
             spaceFrom(s, spaceFrom(s, 1) + 1) - spaceFrom(s, 1) - 1)

\* authHeader && authHeader.split(' ')[1]
tokenOf(authHeader) ==
    IF authHeader = UNDEFINED \/ authHeader = <<>> THEN authHeader
    ELSE secondPart(authHeader)

\* jwt.verify(token, secret) has no error
verifies(token, secret) ==
    /\ secret # UNDEFINED
    /\ Len(token) = 2
    /\ <<token[2]>> = secret

\* the payload jwt.verify hands to its callback
payloadOf(token) == <<token[1]>>

newCall(route, header) ==
    [route |-> route, header |-> header, at |-> "arrived", status |-> 0,
     user |-> UNDEFINED, nextCalls |-> 0, ran |-> FALSE]

\* a request to a protected route arrives
request(route, header) ==
    /\ Len(calls) < MaxCalls
    /\ calls' = Append(calls, newCall(route, header))
    /\ UNCHANGED <<JWT_SECRET, besideAuth>>

\* authenticateToken(req, res, next) on call c
authenticate(c, secret) ==
    IF tokenOf(c.header) \in {UNDEFINED, NULL}
    THEN [c EXCEPT !.at = "done", !.status = 401]
    ELSE IF ~verifies(tokenOf(c.header), secret)
         THEN [c EXCEPT !.at = "done", !.status = 403]
         ELSE [c EXCEPT !.at = "next", !.user = payloadOf(tokenOf(c.header)),
                        !.nextCalls = @ + 1]

authenticateToken(i) ==
    /\ i \in 1..Len(calls)
    /\ calls[i].at = "arrived"
    /\ calls' = [calls EXCEPT ![i] = authenticate(@, JWT_SECRET)]
    /\ UNCHANGED <<JWT_SECRET, besideAuth>>

\* the status of a route's reply when nothing fails
successStatus(route) == IF route = "POST /api/transactions" THEN 201 ELSE 200

\* the handler of the route runs after next() and replies
handler(i, ok) ==
    /\ i \in 1..Len(calls)
    /\ calls[i].at = "next"
    /\ calls' = [calls EXCEPT ![i] =
                   [@ EXCEPT !.at = "done", !.ran = TRUE,
                             !.status = IF ok
                                        THEN successStatus(calls[i].route)
                                        ELSE 500]]
    /\ UNCHANGED <<JWT_SECRET, besideAuth>>

NextAuth ==
    \/ \E route \in ProtectedRoutes, header \in AuthHeaders :
          request(route, header)
    \/ \E i \in 1..MaxCalls : authenticateToken(i)
    \/ \E i \in 1..MaxCalls, ok \in BOOLEAN : handler(i, ok)

SpecAuth == InitAuth /\ [][NextAuth]_vars

(***************************************************************************)
(* POST /api/login of src/unnamed/part_004.  An await is a step.  The hash *)
(* bcrypt stores for a password is <<"hash", password>>.                   *)
(***************************************************************************)
MaxLogins == 2

\* req.body.email and req.body.password; "" is a missing field
Emails == {"", "a@x", "b@x"}

Passwords == {"", "p1", "p2"}

hashOf(password) == <<"hash", password>>

\* the table users: empty, or a@x registered with the password p1
UserTables ==
    {{}, {[id |-> 1, email |-> "a@x", password_hash |-> hashOf("p1")]}}

InitLogin ==
    /\ ParserIdle
    /\ ServerIdle
    /\ LedgerIdle
    /\ AuthIdle
    /\ users \in UserTables
    /\ logins = <<>>

\* a reply: the status, body.error, body.message and body.token
Reply(status, error, message, token) ==
    [status |-> status, error |-> error, message |-> message, token |-> token]

noReply == Reply(0, "", "", <<>>)

\* res.status(400): a field is missing
fieldsMissing == Reply(400, "enter email and password", "", <<>>)

\* the reply to an unknown email with a status of its own
userNotFound_404 == Reply(404, "credentials invalid", "", <<>>)

\* res.status(401) when no user has the email
userNotFound == Reply(401, "credentials invalid", "", <<>>)

\* res.status(401) when the password does not match
passwordMismatch == Reply(401, "credentials invalid", "", <<>>)

\* res.status(500) of the catch
loginError == Reply(500, "login failed", "", <<>>)

\* jwt.sign({ userId, email }, JWT_SECRET): the token of the user
sign(user, secret) == <<user.id, user.email>> \o secret

\* res.json({ message, token })
loggedIn(user, secret) == Reply(200, "", "login succeeded", sign(user, secret))

\* const user before the SELECT has settled
noUser == [id |-> 0, email |-> "", password_hash |-> <<>>]

newLogin(email, password) ==
    [email |-> email, password |-> password, at |-> "arrived",
     user |-> noUser, failed |-> FALSE, reply |-> noReply]

\* login l answered with reply r
answer(l, r) == [l EXCEPT !.at = "done", !.reply = r]

\* the handler up to its first await: the test of the fields, pool.query
postLogin(email, password) ==
    /\ Len(logins) < MaxLogins
    /\ logins' = Append(logins,
                    IF email = "" \/ password = ""
                    THEN answer(newLogin(email, password), fieldsMissing)
                    ELSE [newLogin(email, password) EXCEPT !.at = "query"])
    /\ UNCHANGED <<users, besideLogin>>

\* userResult.rows of SELECT * FROM users WHERE email = $1
rowsOf(email) == {u \in users : u.email = email}

\* the SELECT settles: no user, or bcrypt.compare is awaited
selectUser(i, ok) ==
    /\ i \in 1..Len(logins)
    /\ logins[i].at = "query"
    /\ logins' = [logins EXCEPT ![i] =
                    IF ~ok THEN answer([@ EXCEPT !.failed = TRUE], loginError)
                    ELSE IF rowsOf(@.email) = {} THEN answer(@, userNotFound)
                    ELSE [@ EXCEPT !.at = "compare",
                                   !.user = CHOOSE u \in rowsOf(logins[i].email) :
                                               TRUE]]
    /\ UNCHANGED <<users, besideLogin>>

\* bcrypt.compare(password, user.password_hash)
isMatch(password, user) == user.password_hash = hashOf(password)

\* the reply once bcrypt.compare has settled for the user of login l
afterCompare(l, user, secret) ==
    IF isMatch(l.password, user) THEN answer(l, loggedIn(user, secret))
    ELSE answer(l, passwordMismatch)

\* bcrypt.compare settles
compare(i, ok) ==
    /\ i \in 1..Len(logins)
    /\ logins[i].at = "compare"
    /\ logins' = [logins EXCEPT ![i] =
                    IF ~ok
                    THEN answer([@ EXCEPT !.failed = TRUE], loginError)
                    ELSE afterCompare(@, @.user, JWT_SECRET)]
    /\ UNCHANGED <<users, besideLogin>>

NextLogin ==
    \/ \E email \in Emails, password \in Passwords : postLogin(email, password)
    \/ \E i \in 1..MaxLogins, ok \in BOOLEAN : selectUser(i, ok)
    \/ \E i \in 1..MaxLogins, ok \in BOOLEAN : compare(i, ok)

SpecLogin == InitLogin /\ [][NextLogin]_vars

(***************************************************************************)
(* Properties.  Dates are sequences of characters; the predicates below    *)
(* describe their shape and the readings of a line.                        *)
(***************************************************************************)
\* 4 digits, '-', 2 digits, '-', 2 digits
IsISODate(d) ==
    /\ Len(d) = 10
    /\ Digs(d, 1, 4)
    /\ d[5] = "-"
    /\ Digs(d, 6, 2)
    /\ d[8] = "-"
    /\ Digs(d, 9, 2)

\* an ISO date that names a day of the calendar
IsCalendarDate(d) ==
    /\ IsISODate(d)
    /\ isValidDate(DigitsValue(Sub(d, 1, 4)), DigitsValue(Sub(d, 6, 2)),
                   DigitsValue(Sub(d, 9, 2)))

\* the year of an ISO date
YearOf(d) == DigitsValue(Sub(d, 1, 4))

\* the versions that run a table of date formats, and their table
TableVersions == {"srv153", "srv672", "p3v722", "p4v283"}

FormatsOf(v) ==
    CASE v = "srv153" -> dateFormats_srv153
      [] v = "srv672" -> dateFormats_srv672
      [] v = "p3v722" -> dateFormats_p3v722
      [] v = "p4v283" -> dateFormats_p4v283

\* some rule of version v matches the line
SomeRuleMatches(v, line) ==
    IF v \in TableVersions
    THEN \E k \in 1..Len(FormatsOf(v)) : formatRegex(FormatsOf(v)[k], line).ok
    ELSE IF v = "srv542"
    THEN \E k \in 1..4 : dateRegexes_srv542(k, line).ok
    ELSE \E k \in 1..Len(datePatterns_p3v153) :
            patternRegex_p3v153(datePatterns_p3v153[k], line).ok

\* the date version v accepts from the line alone; NULL when it accepts none
DateOfLine(v, line, t) ==
    IF v \in TableVersions THEN tryFormats(FormatsOf(v), 1, line, t)
    ELSE IF v = "srv542" THEN tryRegexes_srv542(1, line, NULL, t)
    ELSE LET best == lineLoop_p3v153(<<line>>, 1, noBestMatch, t) IN
         IF best.found THEN dateOfBestMatch(best) ELSE NULL

Date_2050_03_15 == <<"2", "0", "5", "0", "-", "0", "3", "-", "1", "5">>

Date_1950_03_15 == <<"1", "9", "5", "0", "-", "0", "3", "-", "1", "5">>

Date_1951_03_15 == <<"1", "9", "5", "1", "-", "0", "3", "-", "1", "5">>

Date_2024_02_29 == <<"2", "0", "2", "4", "-", "0", "2", "-", "2", "9">>

Line_2024_2_29 == <<"2", "0", "2", "4", "/", "2", "/", "2", "9">>

(***************************************************************************)
(* C1: for every input text the result's date is a string of the shape     *)
(* YYYY-MM-DD, never null, undefined or the empty string.  Stated of the   *)
(* two versions the claim rests on (server.js:153 and part_003:153).       *)
(***************************************************************************)
C1_DateAlwaysISO ==
    (pc = "returned" /\ version \in {"srv153", "p3v153"})
        => IsISODate(result.date)

(***************************************************************************)
(* C2: when the input text is empty or absent the result is the all-       *)
(* default one: date = today's date in YYYY-MM-DD form, amount absent,     *)
(* notes absent.  Stated of the refactored versions (part_003:722,         *)
(* part_004:283).                                                          *)
(***************************************************************************)
C2_EmptyInputGivesToday ==
    (pc # "idle" /\ version \in {"p3v722", "p4v283"} /\ text \in {NULL, <<>>})
        => /\ pc = "returned"
           /\ result.date = todayISO(now)
           /\ result.amount = NullNum
           /\ result.notes \in {NULL, <<>>}

(***************************************************************************)
(* C3: parseReceiptText never raises: for every input value, absent ones   *)
(* included, the call returns a result.  Stated of server.js:153 and       *)
(* server.js:672.                                                          *)
(***************************************************************************)
C3_NeverRaises ==
    version \in {"srv153", "srv672"} => pc # "threw"

(***************************************************************************)
(* C4: the date returned comes from the earliest line on which some rule   *)
(* yields an accepted date; a match on a later line never replaces it.     *)
(* Stated of server.js:153, part_003:153 and part_003:722.                 *)
(***************************************************************************)
C4_EarliestLineDecides ==
    (pc = "returned" /\ version \in {"srv153", "p3v153", "p3v722"} /\ isString(text))
        => LET lines == normalizeLines(text) IN
           \A k \in 1..Len(lines) :
              (/\ DateOfLine(version, lines[k], now) # NULL
               /\ \A j \in 1..(k - 1) : DateOfLine(version, lines[j], now) = NULL)
                  => result.date = DateOfLine(version, lines[k], now)

(***************************************************************************)
(* C5: a match whose month is outside 1..12 or whose day exceeds the day   *)
(* count of the month is never accepted as the result: a date taken from   *)
(* the text is a day of the calendar ("13/40/2024" does not produce        *)
(* "2024-13-40").  Stated of server.js:153 and part_003:153.               *)
(***************************************************************************)
C5_InvalidDateNeverAccepted ==
    (/\ pc = "returned"
     /\ version \in {"srv153", "p3v153"}
     /\ result.date \notin {NULL, <<>>})
        => IsCalendarDate(result.date)

(***************************************************************************)
(* C6: if no date rule matches any normalized line of a non-empty text,    *)
(* the returned date is the current date.  Stated of server.js:153,        *)
(* server.js:672 and part_003:153.                                         *)
(***************************************************************************)
C6_NoMatchGivesToday ==
    (/\ pc = "returned"
     /\ version \in {"srv153", "srv672", "p3v153"}
     /\ isString(text)
     /\ text # <<>>
     /\ LET lines == normalizeLines(text) IN
        \A k \in 1..Len(lines) : ~SomeRuleMatches(version, lines[k]))
        => result.date = todayISO(now)

(***************************************************************************)
(* C7: within a line the first rule in priority order that matches         *)
(* decides: when the first line of the text matches both a four-digit-year *)
(* rule and the bare month/day rule, the returned date is a four-digit-    *)
(* year reading of that line.  Stated of server.js:153 and part_003:722.   *)
(***************************************************************************)
FourDigitYearRules == {"YYYYnenMMgatsuDDnichi", "YYYY/MM/DD", "MM/DD/YYYY"}

\* the four-digit-year readings of the line
FourDigitYearReadings(line, t) ==
    {formatter(g, formatRegex(g, line), t) :
        g \in {h \in FourDigitYearRules : formatRegex(h, line).ok}}

C7_FourDigitYearWins ==
    (pc = "returned" /\ version \in {"srv153", "p3v722"} /\ isString(text))
        => LET lines == normalizeLines(text) IN
           (/\ Len(lines) >= 1
            /\ FourDigitYearReadings(lines[1], now) # {}
            /\ formatRegex("MM/DD", lines[1]).ok)
               => result.date \in FourDigitYearReadings(lines[1], now)

\* 2024/2/29 read in 2025: the month/day reading would be 2025-02-29
C7_Witness ==
    /\ pc = "returned"
    /\ version = "srv153"
    /\ text = Line_2024_2_29
    /\ now.y = 2025
    /\ formatRegex("MM/DD", text).ok
    /\ result.date = Date_2024_02_29

(***************************************************************************)
(* C8: for every two-digit year v in 0..99 accepted by the two-digit-year  *)
(* rule the resulting year is 1900+v when v > 50 and 2000+v otherwise,     *)
(* whatever the current date.  Stated of server.js:153, part_003:153       *)
(* (expandYear) and part_003:722 on the lines yy/03/15.                    *)
(***************************************************************************)
C8_FixedPivot ==
    (pc = "returned" /\ version \in {"srv153", "p3v153", "p3v722"})
        => \A yy \in TwoDigitYears :
              text = LeadingYearLine(yy)
                 => LET v == DigitsValue(yy) IN
                    /\ IsISODate(result.date)
                    /\ YearOf(result.date) = (IF v > 50 THEN 1900 + v ELSE 2000 + v)

(***************************************************************************)
(* C9 as the specification words it: a two-digit year of exactly 50        *)
(* resolves to the year 1950.                                              *)
(***************************************************************************)
C9_FiftyIs1950 ==
    (/\ pc = "returned"
     /\ \/ version \in {"srv153", "p3v153"} /\ text = LeadingYearLine(<<"5", "0">>)
        \/ version \in {"srv153", "srv672"} /\ text = TrailingYearLine(<<"5", "0">>))
        => result.date = Date_1950_03_15

(***************************************************************************)
(* C9 amended: under the fixed pivot of server.js and of the refactored    *)
(* scans a two-digit year of exactly 50 resolves to 2050, and 51 is the    *)
(* least value resolving to 19xx; only expandYear of part_003:153 resolves *)
(* 50 to 1950, as long as the current year is in 2000..2039.               *)
(***************************************************************************)
C9_FiftyIs2050 ==
    pc = "returned"
        => /\ (version \in {"srv153", "p3v722", "p4v283"}
                /\ text = LeadingYearLine(<<"5", "0">>))
                  => result.date = Date_2050_03_15
           /\ (version \in {"srv153", "srv672", "srv542"}
                /\ text = TrailingYearLine(<<"5", "0">>))
                  => result.date = Date_2050_03_15
           /\ (version \in {"srv153", "p3v722", "p4v283"}
                /\ text = LeadingYearLine(<<"5", "1">>))
                  => result.date = Date_1951_03_15
           /\ (version \in {"srv153", "srv672", "srv542"}
                /\ text = TrailingYearLine(<<"5", "1">>))
                  => result.date = Date_1951_03_15
           /\ (version = "p3v153" /\ now.y \in 2000..2039
                /\ text = LeadingYearLine(<<"5", "0">>))
                  => result.date = Date_1950_03_15

C9_Witness ==
    /\ pc = "returned"
    /\ version = "srv672"
    /\ text = TrailingYearLine(<<"5", "0">>)
    /\ result.date = Date_2050_03_15

(***************************************************************************)
(* C10: the two-digit-year rule never matches digits that are part of a    *)
(* longer digit run, so the year of the result is never derived from a     *)
(* fragment of a longer number.  Stated of the two-digit-year rules of     *)
(* server.js:153, server.js:542 and part_003:153 on one-line texts whose   *)
(* date that rule decides.                                                 *)
(***************************************************************************)
\* the match of the two-digit-year rules of version v on the line, as a set
\* of [m, y]: the match and the index of its year group
TwoDigitYearMatches(v, line) ==
    LET M(m, y) == IF m.ok /\ Len(m.g[y]) = 2 THEN {[m |-> m, y |-> y]} ELSE {}
    IN  CASE v = "srv153" -> M(re_YYMMDD(line), 1) \cup M(re_MMDDYY(line), 3)
          [] v = "srv542" -> M(re_MMDDYY_srv542(line), 3)
          [] v = "p3v153" -> M(patternRegex_p3v153("ymd2", line), 1)

\* the year group of the match is a whole digit run of the line
YearGroupIsWholeRun(line, mm) ==
    LET p == mm.m.gpos[mm.y] IN
    ~IsDigit(At(line, p - 1)) /\ ~IsDigit(At(line, p + 2))

\* the year the two-digit-year match stands for in version v
TwoDigitYearOf(v, mm, t) ==
    LET yy == parseInt(mm.m.g[mm.y]) IN
    IF v = "p3v153" THEN expandYear(yy, t) ELSE fullYear(yy)

C10_NoFragmentYear ==
    (/\ pc = "returned"
     /\ version \in {"srv153", "srv542", "p3v153"}
     /\ isString(text)
     /\ Len(normalizeLines(text)) = 1
     /\ IsISODate(result.date))
        => LET line == normalizeLines(text)[1] IN
           \A mm \in TwoDigitYearMatches(version, line) :
              (/\ ~formatRegex("YYYY/MM/DD", line).ok
               /\ ~formatRegex("MM/DD/YYYY", line).ok
               /\ YearOf(result.date) = TwoDigitYearOf(version, mm, now))
                  => YearGroupIsWholeRun(line, mm)

(***************************************************************************)
(* Amounts: the candidates a version's patterns yield on the lines of a    *)
(* text.                                                                   *)
(***************************************************************************)
\* the versions that try amount patterns line by line
LineAmountVersions == {"srv153", "p1v185", "p3v722"}

\* the number of amount patterns of version v
PatternCount(v) ==
    CASE v = "srv153" -> 3
      [] v = "p1v185" -> 5
      [] v = "p3v722" -> 1

\* the group pattern k of version v captures on a line, or NULL
GroupOf(v, k, line) ==
    CASE v = "srv153" -> amountRegexes(k, line)
      [] v = "p1v185" -> amountRegexes_p1v185(k, line)
      [] v = "p3v722" -> amountRegex_p3v722(line)

\* the groups the patterns of version v capture on the lines
GroupsOn(v, lines) ==
    {GroupOf(v, k, lines[n]) : k \in 1..PatternCount(v), n \in 1..Len(lines)}
        \ {NULL}

\* the values the patterns of version v yield on the text, parsed
CandidatesOf(v, tx) == {parseAmount(g) : g \in GroupsOn(v, normalizeLines(tx))}

\* the candidates that are amounts: parsed, and more than zero
ValidCandidates(v, tx) == {c \in CandidatesOf(v, tx) : c # NaN /\ c > 0}

\* a call of a line-by-line version has returned from a text
AmountCase ==
    pc = "returned" /\ version \in LineAmountVersions /\ isString(text)

(***************************************************************************)
(* C11: the amount returned is the maximum of the valid candidates that    *)
(* the patterns yield over all lines, whatever the order of the lines; it  *)
(* is not the first candidate.  Stated of server.js:153, part_001:185 and  *)
(* part_003:722.                                                           *)
(***************************************************************************)
C11_AmountIsMaximum ==
    AmountCase /\ ValidCandidates(version, text) # {}
        => result.amount = Max(ValidCandidates(version, text))

\* the values parseReceipt of part_002 takes for amounts: the first pattern
\* whose group parses to more than zero, else the numbers above 100 of the text
CandidatesOf_p2v89(tx) ==
    {parseAmount(amountPatterns_p2v89(k, tx)) :
        k \in {j \in 1..3 : amountPatterns_p2v89(j, tx) # NULL}}
      \cup {n \in numbers_p2v89(tx, 1) : n > 100}

\* version v finds at least one valid candidate in the text
AmountFound(v, tx) ==
    IF v = "p2v89" THEN \E c \in CandidatesOf_p2v89(tx) : c # NaN /\ c > 0
    ELSE ValidCandidates(v, tx) # {}

(***************************************************************************)
(* C12: when no candidate is found the amount is absent (null), never 0;   *)
(* the amount is present exactly when at least one valid candidate was     *)
(* found.  Stated of server.js:153 and of parseReceipt of part_002:89.     *)
(***************************************************************************)
C12_AbsentNotZero ==
    pc = "returned" /\ version \in {"srv153", "p2v89"} /\ isString(text)
        => /\ result.amount # 0
           /\ result.amount # NullNum <=> AmountFound(version, text)

\* result.amount is present: neither null nor the empty string
AmountPresent(r) == r.amount \notin {NullNum, EmptyAmount}

(***************************************************************************)
(* C13: an amount that is present is a non-negative integer, the value of  *)
(* a captured group with its thousands separators removed; a group that    *)
(* does not parse (commas only) is discarded: it never surfaces as NaN and *)
(* it does not keep a later line or pattern from giving the amount.        *)
(* Stated of server.js:153 and part_001:185.                               *)
(***************************************************************************)
C13_NaNDiscarded ==
    pc = "returned" /\ version \in {"srv153", "p1v185"} /\ isString(text)
        => /\ result.amount # NaN
           /\ AmountPresent(result)
                => result.amount >= 0 /\ result.amount \in CandidatesOf(version, text)
           /\ ValidCandidates(version, text) # {}
                => result.amount \in ValidCandidates(version, text)

(***************************************************************************)
(* Notes: the lines of the six-line prefix that qualify as a store name.   *)
(***************************************************************************)
\* the positions, among the first six normalized lines, of the lines that
\* qualify: length, keyword, no exclusion pattern
QualifyingLines(lines) ==
    {n \in 1..Len(lines) : n <= 6 /\ isStoreName(lines[n])}

\* result.notes is absent: '' or null
NotesAbsent(r) == r.notes \in {<<>>, NULL}

\* the notes of a text by the rule of the six-line prefix
NotesByPrefix(r, lines) ==
    IF QualifyingLines(lines) = {} THEN NotesAbsent(r)
    ELSE r.notes = lines[Min(QualifyingLines(lines))]

(***************************************************************************)
(* C14: the notes are the first line, among the first six normalized       *)
(* lines, that is longer than 1 and shorter than 30 characters, contains a *)
(* business keyword and matches no exclusion pattern; a qualifying line    *)
(* beyond the prefix is never returned; without such a line the notes are  *)
(* absent.  Stated of server.js:153, part_003:722 and part_003:153.        *)
(***************************************************************************)
C14_NotesFromPrefix ==
    pc = "returned" /\ version \in {"srv153", "p3v722", "p3v153"} /\ isString(text)
        => NotesByPrefix(result, normalizeLines(text))

(***************************************************************************)
(* Two calls on the same text, under SpecTwice.                            *)
(***************************************************************************)
\* the second call has ended, the outcome of the first one is kept
BothCallsEnded == first.done /\ pc \in {"returned", "threw"}

\* the clock read another instant at the second call
ClockMoved == first.at # now

Date_2025_09_10 == <<"2", "0", "2", "5", "-", "0", "9", "-", "1", "0">>

\* version v has returned from the text tx
ReturnedFrom(v, tx) == pc = "returned" /\ version = v /\ text = tx

(***************************************************************************)
(* C16: the text of the two lines 2025/09/10 and "gou kei yen 5,000"       *)
(* gives the date 2025-09-10, the amount 5000 and no notes.  Stated of     *)
(* server.js:153 and part_003:722.                                         *)
(***************************************************************************)
C16_DateAndTotal ==
    \A v \in {"srv153", "p3v722"} :
        ReturnedFrom(v, Receipt_Total5000)
            => /\ result.date = Date_2025_09_10
               /\ result.amount = 5000
               /\ NotesAbsent(result)

\* the version of server.js:153 has returned from that text
C16_Witness ==
    ReturnedFrom("srv153", Receipt_Total5000) /\ result.amount = 5000

(***************************************************************************)
(* C17: the text of the two lines 09/10/25 and "TOTAL $50" gives the date  *)
(* 2025-09-10, the amount 50 and no notes.  Stated of server.js:153 and    *)
(* part_003:722.                                                           *)
(***************************************************************************)
C17_MonthFirstAndDollar ==
    \A v \in {"srv153", "p3v722"} :
        ReturnedFrom(v, Receipt_TotalDollar50)
            => /\ result.date = Date_2025_09_10
               /\ result.amount = 50
               /\ NotesAbsent(result)

(***************************************************************************)
(* C18: with the clock in 2025, the text of the two lines 9-10 and         *)
(* "kin gaku 3,000" gives the date 2025-09-10 and the amount 3000.  Stated *)
(* of server.js:153 and part_004:283.                                      *)
(***************************************************************************)
C18_MonthDayAndAmount ==
    \A v \in {"srv153", "p4v283"} :
        ReturnedFrom(v, Receipt_Kingaku3000) /\ getFullYear(now) = 2025
            => /\ result.date = Date_2025_09_10
               /\ result.amount = 3000

(***************************************************************************)
(* C19: when the first line is the name of the store and the lines after   *)
(* it hold the date and the amount, the notes are that first line.         *)
(* Stated of server.js:153 and part_003:153.                               *)
(***************************************************************************)
C19_StoreNameIsNotes ==
    \A v \in {"srv153", "p3v153"} :
        ReturnedFrom(v, Receipt_Sakura) => result.notes = Sakura

(***************************************************************************)
(* The bare month/day rule: the texts of one line on which no other date   *)
(* rule of the version matches.                                            *)
(***************************************************************************)
\* the match of the month/day rule of version v on the line
MonthDayMatch(v, line) ==
    IF v = "p3v153" THEN patternRegex_p3v153("md", line)
    ELSE formatRegex("MM/DD", line)

\* the rules of version v other than the month/day rule that match the line
OtherRulesMatching(v, line) ==
    IF v = "p3v153"
    THEN {f \in {"jp", "ymd", "dmy", "mdy", "ymd2"} : patternRegex_p3v153(f, line).ok}
    ELSE {g \in {"YYYY/MM/DD", "MM/DD/YYYY", "YY/MM/DD", "MM/DD/YY"} :
             formatRegex(g, line).ok}

\* version v has returned a date that the month/day rule alone accepted from
\* the one line of the text
MonthDayCase(v) ==
    /\ pc = "returned"
    /\ version = v
    /\ isString(text)
    /\ Len(normalizeLines(text)) = 1
    /\ MonthDayMatch(v, normalizeLines(text)[1]).ok
    /\ OtherRulesMatching(v, normalizeLines(text)[1]) = {}
    /\ IsISODate(result.date)

\* the date m/d of the year of the clock lies more than 30 days before t
MoreThan30DaysBefore(m, d, t) ==
    dayNumber(t.y, t.m, t.d) - dayNumber(t.y, m, d) > 30
        \/ (dayNumber(t.y, t.m, t.d) - dayNumber(t.y, m, d) = 30 /\ t.tod > 0)

\* the year C20 states for the match mm at time t
RolledYear(mm, t) ==
    IF MoreThan30DaysBefore(parseInt(mm.g[1]), parseInt(mm.g[2]), t)
    THEN getFullYear(t) + 1
    ELSE getFullYear(t)

(***************************************************************************)
(* C20 as stated: a date accepted by the bare month/day rule has the year  *)
(* of the clock, except that it has the next year exactly when the date of *)
(* the current year lies more than 30 days before now; no other year.      *)
(* Stated of server.js:153 and part_003:153.                               *)
(***************************************************************************)
C20_RollsWhenLongPast ==
    \A v \in {"srv153", "p3v153"} :
        MonthDayCase(v)
            => YearOf(result.date)
                 = RolledYear(MonthDayMatch(v, normalizeLines(text)[1]), now)

(***************************************************************************)
(* C20 amended: in server.js:153 a date accepted by the bare month/day     *)
(* rule always has the year of the clock; in part_003:153 it has the next  *)
(* year exactly when the date of the current year lies more than 30 days   *)
(* before now, and the year of the clock otherwise.  No other year.        *)
(***************************************************************************)
C20_YearOfMonthDay ==
    /\ MonthDayCase("srv153") => YearOf(result.date) = getFullYear(now)
    /\ MonthDayCase("p3v153")
          => YearOf(result.date)
               = RolledYear(MonthDayMatch("p3v153", normalizeLines(text)[1]), now)

\* part_003:153 has rolled a date of the month/day rule into the next year
C20_Witness ==
    MonthDayCase("p3v153") /\ YearOf(result.date) = getFullYear(now) + 1

(***************************************************************************)
(* The line normalizer, stated on the positions of the text.               *)
(***************************************************************************)
\* the positions of the line feeds of the text, and its two ends
Breaks(tx) == {0, Len(tx) + 1} \cup {i \in 1..Len(tx) : tx[i] = "LF"}

\* the break that ends the segment starting after break b
NextBreak(tx, b) == Min({c \in Breaks(tx) : c > b})

\* the positions of the segment after break b that hold no whitespace
Inked(tx, b) == {i \in (b + 1)..(NextBreak(tx, b) - 1) : ~IsSpace(tx[i])}

\* the breaks followed by a segment that is not blank
KeptBreaks(tx) == {b \in Breaks(tx) : b <= Len(tx) /\ Inked(tx, b) # {}}

\* the segment after break b, from its first to its last inked position
Trimmed(tx, b) == SubSeq(tx, Min(Inked(tx, b)), Max(Inked(tx, b)))

\* the k-th of the kept breaks
KthKept(tx, k) ==
    CHOOSE b \in KeptBreaks(tx) : Cardinality({c \in KeptBreaks(tx) : c < b}) = k - 1

\* a call that normalizes the lines of a text has returned
NormalizedCase == pc = "returned" /\ version # "p2v89" /\ isString(text)

(***************************************************************************)
(* C21: the normalized lines are exactly the segments of the text between  *)
(* line feeds, each trimmed of the whitespace around it, the empty ones    *)
(* removed and the others in their order; no line is empty, none starts or *)
(* ends with whitespace.  Stated of the `lines` of every version that      *)
(* normalizes (server.js:155, part_003:728 and the others alike).          *)
(***************************************************************************)
C21_LinesAreTrimmedSegments ==
    NormalizedCase
        => /\ Len(normalized) = Cardinality(KeptBreaks(text))
           /\ \A k \in 1..Len(normalized) :
                 /\ normalized[k] = Trimmed(text, KthKept(text, k))
                 /\ Len(normalized[k]) > 0
                 /\ ~IsSpace(normalized[k][1])
                 /\ ~IsSpace(normalized[k][Len(normalized[k])])

\* a text with whitespace around its segments and an empty segment between
\* them has been normalized to its two lines
C21_Witness ==
    /\ NormalizedCase
    /\ text = Receipt_CRLF
    /\ normalized = <<<<"a">>, <<"2", "/", "1", "2">>>>

(***************************************************************************)
(* C22: the date scan does not depend on amounts or times: a line with a   *)
(* valid date is not passed over because it also carries a price (as in    *)
(* "2024 nen 3 gatsu 15 nichi yen 1,200") or a clock time (as in           *)
(* "14:30 2024-03-15"); adding such a token leaves the extracted date      *)
(* unchanged.  Stated of server.js:153 and part_003:153.                   *)
(***************************************************************************)
C22_DateIgnoresPriceAndTime ==
    pc = "returned" /\ version \in {"srv153", "p3v153"}
        => \A l \in DatedLines :
              text \in {WithAmount(l), WithTime(l)}
                 => result.date = DateOfLine(version, l, now)

\* the one line of the text carries a token A/B/YYYY and no token YYYY/A/B,
\* and the call has returned a date
TrailingYearCase ==
    /\ pc = "returned"
    /\ isString(text)
    /\ Len(normalizeLines(text)) = 1
    /\ re_MMDDYYYY(normalizeLines(text)[1]).ok
    /\ ~re_YYYYMMDD(normalizeLines(text)[1]).ok
    /\ result.date \notin {NULL, <<>>}

(***************************************************************************)
(* C23: of a token A/B/YYYY the first number is the month and the second   *)
(* the day: the date is YYYY-AA-BB, and 12/11/2024 gives 2024-12-11.       *)
(* Stated of server.js:153 and part_003:153.                               *)
(***************************************************************************)
C23_MonthBeforeDay ==
    TrailingYearCase /\ version \in {"srv153", "p3v153"}
        => result.date
             = formatter("MM/DD/YYYY", re_MMDDYYYY(normalizeLines(text)[1]), now)

\* the validating extractor of part_003:153 has returned a date it took from
\* a rule match
ValidatedDateCase ==
    /\ pc = "returned"
    /\ version = "p3v153"
    /\ result.date \notin {NULL, <<>>}

(***************************************************************************)
(* C24: every date the validating extractor of part_003:153 returns from a *)
(* rule match is a real calendar date, also when the bare month/day rule   *)
(* has rolled the year forward.                                            *)
(***************************************************************************)
C24_ReturnedDateIsCalendarDate ==
    ValidatedDateCase => IsCalendarDate(result.date)

\* the refactored single pass of part_003:722 has returned on a non-empty
\* string
SinglePassCase ==
    /\ pc = "returned"
    /\ version = "p3v722"
    /\ isString(text)
    /\ text # <<>>

(***************************************************************************)
(* C25: on every non-empty input the refactored single pass of             *)
(* part_003:722 (one alternation for the amount, one forEach) returns the  *)
(* amount and the notes of the earlier multi-loop version of server.js:153 *)
(* (the same loops stand at part_003:421-462).                             *)
(***************************************************************************)
C25_SinglePassEquivalent ==
    SinglePassCase
        => /\ result.amount = parseReceiptText_srv153(text, now).amount
           /\ result.notes = parseReceiptText_srv153(text, now).notes

(***************************************************************************)
(* The OCR server.                                                         *)
(***************************************************************************)
\* the initialization has failed: the startup has thrown or has exited
InitializationFailed == server \in {"rejected", "exited"}

\* the handler of request i has run
Handled(i) == i \in 1..Len(reqs) /\ reqs[i].entered

(***************************************************************************)
(* C26: the server starts listening only after the Vision client has been  *)
(* initialized; once the initialization has failed the process never       *)
(* listens and exits with code 1; no request to /api/ocr is handled while  *)
(* visionClient is unset; a failed connection self-test alone does not     *)
(* prevent the startup.  Stated of src/server.js and src/index.js, under   *)
(* the fairness of SpecServerFair.                                         *)
(***************************************************************************)
C26_ListensOnlyInitialized ==
    /\ [](server = "listening" => visionClient)
    /\ [][InitializationFailed => InitializationFailed']_vars
    /\ [](exit # <<>> => exit = <<1>> /\ reqs = <<>>)
    /\ [](\A i \in 1..MaxRequests : Handled(i) => reqs[i].client)
    /\ (server = "rejected" ~> exit = <<1>>)
    /\ (selfTest = "failed" ~> server = "listening")

\* the server listens after a failed self-test and has handled a request
C26_Witness ==
    /\ server = "listening"
    /\ selfTest = "failed"
    /\ Handled(1)

\* request r has been answered
Answered(r) == r.at = "done"

\* the reply the order of C27 gives an answered request r
InOrder(r) ==
    IF ~visionClient THEN r.responses[1] = Response(503, "CLIENT_NOT_INITIALIZED")
    ELSE IF r.upload = "none"
         THEN r.responses[1] = Response(400, "NO_FILE_UPLOADED")
         ELSE \/ /\ r.vision \in {"empty", "text"}
                 /\ r.responses[1] = Response(200, "")
                 /\ r.rawText # NULL
                 /\ r.parsed # noResult
              \/ /\ r.vision = "error"
                 /\ r.responses[1] = Response(500, "OCR_PROCESSING_ERROR")

\* one reply once answered and none before; the Vision service is not called
\* for a request answered 503 or 400
OneReply(r) ==
    /\ Len(r.responses) = IF Answered(r) THEN 1 ELSE 0
    /\ r.visionCalls <= 1
    /\ Answered(r) /\ r.responses[1].status \in {503, 400} => r.visionCalls = 0

\* the upload middleware rejects the upload of r: not an image, or too large
UploadRejected(r) == r.upload \in {"document", "oversized"}

(***************************************************************************)
(* C27 as stated: every POST /api/ocr of src/server.js gets exactly one    *)
(* reply: 503 CLIENT_NOT_INITIALIZED if the client is unset, else 400      *)
(* NO_FILE_UPLOADED if no file was uploaded, else 200 with the data and    *)
(* the raw text if the OCR succeeds and 500 OCR_PROCESSING_ERROR if the    *)
(* Vision call fails; no Vision call for a request answered 503 or 400.    *)
(***************************************************************************)
C27_OneReplyInOrder ==
    build = "server.js"
        => \A i \in 1..Len(reqs) :
              /\ OneReply(reqs[i])
              /\ Answered(reqs[i]) => InOrder(reqs[i])

(***************************************************************************)
(* C27 amended: every POST /api/ocr of src/server.js whose upload the      *)
(* upload middleware accepts gets exactly one reply, in the order stated;  *)
(* a request whose upload the middleware rejects gets exactly one reply,   *)
(* 400 FILE_TOO_LARGE or 500 INTERNAL_SERVER_ERROR, from the error handler *)
(* and its handler does not run; no Vision call for a request answered 503 *)
(* or 400, nor for a rejected upload.                                      *)
(***************************************************************************)
C27_OneReplyPastUpload ==
    build = "server.js"
        => \A i \in 1..Len(reqs) :
              /\ OneReply(reqs[i])
              /\ Answered(reqs[i]) /\ ~UploadRejected(reqs[i])
                    => InOrder(reqs[i])
              /\ Answered(reqs[i]) /\ UploadRejected(reqs[i])
                    => /\ reqs[i].responses[1]
                            \in {Response(400, "FILE_TOO_LARGE"),
                                 Response(500, "INTERNAL_SERVER_ERROR")}
                       /\ ~reqs[i].entered
                       /\ reqs[i].visionCalls = 0

\* one request answered 400 for its missing file, one answered 200 after the
\* Vision call
C27_Witness ==
    /\ build = "server.js"
    /\ Len(reqs) = 2
    /\ Answered(reqs[1]) /\ reqs[1].upload = "none"
    /\ Answered(reqs[2]) /\ reqs[2].responses[1].status = 200

(***************************************************************************)
(* The ledger.                                                             *)
(***************************************************************************)
\* the requests whose transaction on pair p has been committed
CommittedOn(p) == {i \in Requests : txs[i].committed /\ txs[i].pair = p}

\* request i has ended without the reply 201
Failed(i) == txs[i].pc = "done" /\ txs[i].status # 201

(***************************************************************************)
(* C28: after any interleaving of requests to POST /api/transactions, for  *)
(* every (user, account) pair the stored usage_count equals the number of  *)
(* committed transaction rows of the pair; a request that fails leaves     *)
(* both tables unchanged; a request releases the pooled client it has      *)
(* acquired exactly once.                                                  *)
(***************************************************************************)
C28_LedgerAndUsageAgree ==
    /\ \A p \in Pairs :
          /\ user_account_usage[p] = transactions[p]
          /\ transactions[p] = Cardinality(CommittedOn(p))
    /\ \A i \in Requests :
          /\ Failed(i) => ~txs[i].committed /\ ~txs[i].inserted /\ ~txs[i].bumped
          /\ txs[i].released <= 1
          /\ txs[i].pc = "done" /\ txs[i].acquired => txs[i].released = 1
          /\ ~txs[i].acquired => txs[i].released = 0

\* two requests on one pair have ended, the first committed and the second
\* rolled back and answered 500: the pair has one row and the count 1
C28_Witness ==
    /\ txs[1].pc = "done" /\ txs[2].pc = "done"
    /\ txs[1].pair = txs[2].pair
    /\ txs[1].committed
    /\ txs[2].status = 500
    /\ user_account_usage[txs[1].pair] = 1

(***************************************************************************)
(* The authentication of the protected routes.                             *)
(***************************************************************************)
\* the token the Authorization header h carries: the part after "Bearer ",
\* <<>> when the header is absent or carries none
Carried(h) ==
    IF h # UNDEFINED /\ Len(h) > 2 /\ h[1] = "Bearer" /\ h[2] = " "
    THEN SubSeq(h, 3, Len(h))
    ELSE <<>>

\* the tokens signed with the secret of the deployment that have not expired
Verified(t) == JWT_SECRET # UNDEFINED /\ t \in {<<"u1">> \o JWT_SECRET,
                                                <<"u2">> \o JWT_SECRET}

\* call c has been answered by the middleware or by the handler
Settled(c) == c.at \in {"next", "done"}

(***************************************************************************)
(* C29: authenticateToken calls next, with req.user the verified payload,  *)
(* only if the Authorization header carries a token that verifies against  *)
(* JWT_SECRET; a missing token yields 401 and an invalid token 403, and    *)
(* next is not called in either case: no protected route runs without a    *)
(* verified user.                                                          *)
(***************************************************************************)
C29_NextOnlyWhenVerified ==
    \A i \in 1..Len(calls) :
        LET c == calls[i] IN
        /\ c.nextCalls > 0 \/ c.ran
              => /\ Verified(Carried(c.header))
                 /\ c.user = <<Carried(c.header)[1]>>
                 /\ c.nextCalls = 1
        /\ Settled(c) /\ Carried(c.header) = <<>>
              => c.status = 401 /\ c.nextCalls = 0 /\ ~c.ran
        /\ Settled(c) /\ Carried(c.header) # <<>> /\ ~Verified(Carried(c.header))
              => c.status = 403 /\ c.nextCalls = 0 /\ ~c.ran

(***************************************************************************)
(* The login.                                                              *)
(***************************************************************************)
\* login l with both fields present has been answered, and neither the
\* database nor bcrypt has failed
Decided(l) ==
    /\ l.at = "done"
    /\ l.email # "" /\ l.password # ""
    /\ ~l.failed

\* the email of l is registered
Registered(l) == \E u \in users : u.email = l.email

\* the password of l is the one the hash of its user was made of
PasswordRight(l) ==
    \E u \in users : u.email = l.email /\ u.password_hash = hashOf(l.password)

====
